---- MODULE Spec2Model ----
(***************************************************************************)
(* Conversational intent pipeline of local_claude: the Conversation        *)
(* Context Store (core/conversation_engine.py) and the Intent Router       *)
(* (core/intent_router.py).  Confidences are integers in hundredths        *)
(* (0.7 is 70).  An Optional value is a sequence of length at most one:    *)
(* None is << >> and a present value x is << x >>.                         *)
(***************************************************************************)
EXTENDS Integers, Sequences, FiniteSets, TLC

VARIABLES
    max_context_turns,      \* ConversationEngine.max_context_turns
    current_context,        \* ConversationEngine.current_context (Optional)
    conversation_history,   \* ConversationEngine.conversation_history
    llm_interface,          \* IntentRouter.llm_interface (Optional)
    workspace_tools,        \* IntentRouter.workspace_tools (name -> operations)
    clock,                  \* time.time(), whole seconds
    file,                   \* the file save_context writes and load_context reads
    saved,                  \* the engine as it was when file was written by save_context
    pending,                \* the call waiting to be made (Optional)
    recorded,               \* every turn handed to add_turn since the last start
    ret                     \* the last call made and what it returned

vars == << max_context_turns, current_context, conversation_history,
           llm_interface, workspace_tools, clock, file, saved, pending,
           recorded, ret >>

----------------------------------------------------------------------------
(* Bounds of the exploration *)

MaxWindow == 2      \* largest configured max_context_turns
MaxTurns == 6       \* add_turn calls per session (context store behaviours)
MaxCalls == 1       \* route_intent calls per session (router behaviours)
MaxSnapshotTurns == 2   \* turns of the sessions that are presented or saved
MaxClock == 2       \* seconds that pass
MaxWords == 2       \* phrases in a text handed to the parser

----------------------------------------------------------------------------
(* Python helpers *)

None == << >>
Some(x) == << x >>

\* s[-n:] for n >= 0; note that s[-0:] is the whole list
LastN(s, n) ==
    IF n = 0 \/ n >= Len(s) THEN s ELSE SubSeq(s, Len(s) - n + 1, Len(s))

\* truthiness of an Optional[str]
Truthy(o) == o # None /\ o[1] # ""

\* str(x) of an Optional[str]
Str(o) == IF o = None THEN "None" ELSE o[1]

\* A dict is the sequence of its items [key, value] in insertion order.
Keys(d) == { d[i].key : i \in DOMAIN d }

\* d[k], for k in d
Get(d, k) == d[CHOOSE i \in DOMAIN d : d[i].key = k].value

\* d[k] = v
Put(d, k, v) ==
    IF k \in Keys(d)
    THEN [i \in DOMAIN d |-> IF d[i].key = k THEN [key |-> k, value |-> v] ELSE d[i]]
    ELSE Append(d, [key |-> k, value |-> v])

\* d[k] = d.get(k, 0) + 1
Inc(d, k) == Put(d, k, IF k \in Keys(d) THEN Get(d, k) + 1 ELSE 1)

\* s.startswith(p)
StartsWith(s, p) == Len(s) >= Len(p) /\ SubSeq(s, 1, Len(p)) = p

UpperCase == "ABCDEFGHIJKLMNOPQRSTUVWXYZÁÉÍÓÚÑ"
LowerCase == "abcdefghijklmnopqrstuvwxyzáéíóúñ"

\* the character c in the other case, given the alphabets from and to
SwapCase(c, from, to) ==
    IF \E i \in 1 .. Len(from) : SubSeq(from, i, i) = c
    THEN LET i == CHOOSE i \in 1 .. Len(from) : SubSeq(from, i, i) = c
         IN SubSeq(to, i, i)
    ELSE c

\* s.lower()
RECURSIVE Lower(_)
Lower(s) ==
    IF Len(s) = 0 THEN s
    ELSE SwapCase(SubSeq(s, 1, 1), UpperCase, LowerCase) \o Lower(SubSeq(s, 2, Len(s)))

\* s.title() of a single lower-case word
Title(s) ==
    IF Len(s) = 0 THEN s
    ELSE SwapCase(SubSeq(s, 1, 1), LowerCase, UpperCase) \o SubSeq(s, 2, Len(s))

\* sep.join(parts)
RECURSIVE Join(_, _)
Join(parts, sep) ==
    IF parts = << >> THEN ""
    ELSE IF Len(parts) = 1 THEN parts[1]
    ELSE parts[1] \o sep \o Join(Tail(parts), sep)

\* s[:n] of a list
FirstN(s, n) == SubSeq(s, 1, IF Len(s) < n THEN Len(s) ELSE n)

\* k in s, for strings
Contains(s, k) ==
    \E i \in 1 .. (Len(s) - Len(k) + 1) : SubSeq(s, i, i + Len(k) - 1) = k

----------------------------------------------------------------------------
(* core/nlp_parser.py: IntentType, ParsedIntent *)

IntentType ==
    {"analyze", "create", "modify", "find", "explain", "optimize", "test",
     "status", "help", "unknown"}

\* a ParsedIntent; action_details is an Optional set of <<key, value>> pairs
ParsedIntent(i, c, t, d) ==
    [intent |-> i, confidence |-> c, target |-> t, action_details |-> d,
     original_text |-> ""]

----------------------------------------------------------------------------
(* core/nlp_parser.py: NLPParser.  A confidence of the parser is an        *)
(* integer number of 1/21000: the base confidences are hundredths and the  *)
(* keyword groups have 5, 6 or 7 keywords, so every score is exact.        *)

One == 21000

\* the characters str.strip() removes and \s matches
Whitespace == {" ", "\t", "\n", "\r"}

CharAt(s, i) == SubSeq(s, i, i)

\* s.strip()
RECURSIVE Strip(_)
Strip(s) ==
    IF Len(s) = 0 THEN s
    ELSE IF CharAt(s, 1) \in Whitespace THEN Strip(SubSeq(s, 2, Len(s)))
    ELSE IF CharAt(s, Len(s)) \in Whitespace THEN Strip(SubSeq(s, 1, Len(s) - 1))
    ELSE s

\* the literal k occurs in s at position i
OccursAt(s, k, i) == i >= 1 /\ i + Len(k) - 1 <= Len(s) /\ SubSeq(s, i, i + Len(k) - 1) = k

\* a regex of the parser is a chain of alternations of literals joined by
\* .*? ; "." matches any character but a newline
Re(head, tail) == << head, tail >>

\* NLPParser._load_intent_patterns, in the order of the dict
patterns ==
    << [intent |-> "analyze",
        patterns |->
            << Re({"analiza", "analize"}, {"proyecto", "código", "archivo", "este", "esto"}),
               Re({"revisa"}, {"código", "proyecto", "archivo"}),
               Re({"qué"}, {"problemas", "issues", "errores"}),
               Re({"dame"}, {"análisis", "reporte", "resumen"}),
               Re({"examina"}, {"este", "esto", "el", "la"}) >>,
        confidence |-> 90,
        keywords |-> << "analizar", "revisar", "problemas", "análisis", "examinar", "evaluar" >>],
       [intent |-> "create",
        patterns |->
            << Re({"crea"}, {"archivo", "proyecto", "función", "clase"}),
               Re({"genera"}, {"código", "archivo", "proyecto"}),
               Re({"hacer"}, {"nuevo", "nueva", "un", "una"}),
               Re({"construye"}, {"proyecto", "aplicación", "api"}),
               Re({"implementa"}, {"función", "clase", "método"}) >>,
        confidence |-> 85,
        keywords |-> << "crear", "generar", "nuevo", "nueva", "construir", "implementar", "hacer" >>],
       [intent |-> "find",
        patterns |->
            << Re({"busca"}, {"archivo", "función", "clase", "patrón"}),
               Re({"encuentra"}, {"donde", "dónde", "el", "la"}),
               Re({"donde", "dónde"}, {"está", "se encuentra"}),
               Re({"localiza"}, {"archivo", "función", "código"}) >>,
        confidence |-> 80,
        keywords |-> << "buscar", "encontrar", "donde", "dónde", "localizar", "ubicar" >>],
       [intent |-> "optimize",
        patterns |->
            << Re({"optimiza"}, {"código", "performance", "rendimiento"}),
               Re({"mejora"}, {"velocidad", "performance", "eficiencia"}),
               Re({"acelera"}, {"esto", "función", "código"}),
               Re({"reduce"}, {"tiempo", "latencia", "memoria"}) >>,
        confidence |-> 80,
        keywords |-> << "optimizar", "mejorar", "acelerar", "performance", "rendimiento", "eficiencia" >>],
       [intent |-> "explain",
        patterns |->
            << Re({"explica"}, {"como", "cómo", "qué", "este", "esto"}),
               Re({"como", "cómo"}, {"funciona", "trabaja", "opera"}),
               Re({"qué"}, {"hace", "significa", "es"}),
               Re({"describe"}, {"el", "la", "este", "esto"}) >>,
        confidence |-> 75,
        keywords |-> << "explicar", "como", "cómo", "qué", "describe", "significa" >>],
       [intent |-> "status",
        patterns |->
            << Re({"estado", "status", "situación"}, {"actual", "del", "de"}),
               << {"como"}, {"está", "van", "va"}, {"proyecto", "desarrollo"} >>,
               Re({"progreso"}, {"actual", "del", "de"}),
               Re({"métricas"}, {"sistema", "proyecto"}) >>,
        confidence |-> 90,
        keywords |-> << "estado", "status", "progreso", "métricas", "situación" >>],
       [intent |-> "help",
        patterns |->
            << Re({"ayuda"}, {"con", "a", "para"}),
               Re({"como", "cómo"}, {"puedo", "debo", "hago"}),
               Re({"no"}, {"sé", "entiendo", "comprendo"}),
               Re({"qué"}, {"comandos", "opciones", "puedo"}) >>,
        confidence |-> 80,
        keywords |-> << "ayuda", "como", "cómo", "puedo", "debo", "comandos", "opciones" >>] >>

\* the intents of the groups, in the order of registration
IntentValues(groups) == [i \in DOMAIN groups |-> groups[i].intent]

\* the rest of the chain matches text from position pos on: each
\* alternation after a run of characters that has no newline
RECURSIVE MatchesFrom(_, _, _)
MatchesFrom(chain, text, pos) ==
    \/ chain = << >>
    \/ \E i \in pos .. Len(text), k \in Head(chain) :
           /\ OccursAt(text, k, i)
           /\ \A j \in pos .. i - 1 : CharAt(text, j) # "\n"
           /\ MatchesFrom(Tail(chain), text, i + Len(k))

\* re.search(pattern, text, re.IGNORECASE) is not None, text in lower case
search(pattern, text) ==
    \E i \in 1 .. Len(text), k \in Head(pattern) :
        /\ OccursAt(text, k, i)
        /\ MatchesFrom(Tail(pattern), text, i + Len(k))

\* _calculate_confidence with the keywords weighing 1.0 for 0.5
calculate_confidence_keywords_full_weight(text, pattern_group) ==
    LET pattern_confidence ==
            IF \E i \in DOMAIN pattern_group.patterns :
                   search(pattern_group.patterns[i], text)
            THEN (pattern_group.confidence * 80 * One) \div 10000 ELSE 0
        keyword_matches ==
            Cardinality({ i \in DOMAIN pattern_group.keywords :
                             Contains(text, Lower(pattern_group.keywords[i])) })
        confidence ==
            pattern_confidence + (One * keyword_matches) \div Len(pattern_group.keywords)
    IN IF confidence < One THEN confidence ELSE One

\* _calculate_confidence without the final min
calculate_confidence_unclamped(text, pattern_group) ==
    LET base_confidence == pattern_group.confidence
        pattern_matches ==
            Cardinality({ i \in DOMAIN pattern_group.patterns :
                             search(pattern_group.patterns[i], text) })
        keyword_matches ==
            Cardinality({ i \in DOMAIN pattern_group.keywords :
                             Contains(text, Lower(pattern_group.keywords[i])) })
        pattern_confidence ==
            IF pattern_matches > 0 THEN (base_confidence * 80 * One) \div 10000 ELSE 0
        keyword_confidence ==
            IF keyword_matches > 0
            THEN ((One \div 2) * keyword_matches) \div Len(pattern_group.keywords)
            ELSE 0
    IN pattern_confidence + keyword_confidence

calculate_confidence(text, pattern_group) ==
    LET confidence == calculate_confidence_unclamped(text, pattern_group)
    IN IF confidence < One THEN confidence ELSE One

\* the first position from pos on where a word of words, then whitespace,
\* then a character that is not whitespace occur; 0 when there is none
WordThenToken(text, words) ==
    LET after(i, w) ==
            CHOOSE j \in i + Len(w) + 1 .. Len(text) + 1 :
                /\ \A m \in i + Len(w) .. j - 1 : CharAt(text, m) \in Whitespace
                /\ j > Len(text) \/ CharAt(text, j) \notin Whitespace
        hits == { i \in 1 .. Len(text) :
                    \E w \in words :
                        /\ OccursAt(text, w, i)
                        /\ i + Len(w) <= Len(text)
                        /\ CharAt(text, i + Len(w)) \in Whitespace
                        /\ after(i, w) <= Len(text) }
    IN IF hits = {} THEN 0
       ELSE LET i == CHOOSE i \in hits : \A h \in hits : i <= h
                w == CHOOSE w \in words : OccursAt(text, w, i)
            IN after(i, w)

\* the run of characters that are not whitespace from position i on
RECURSIVE TokenAt(_, _)
TokenAt(text, i) ==
    IF i > Len(text) \/ CharAt(text, i) \in Whitespace THEN ""
    ELSE CharAt(text, i) \o TokenAt(text, i + 1)

\* re.search("([^\s]+" + suffix + ")", text): the match or ""
TokenEndingIn(text, suffix) ==
    LET ends(i, e) ==
            /\ e - Len(suffix) + 1 > i
            /\ OccursAt(text, suffix, e - Len(suffix) + 1)
            /\ \A m \in i .. e : CharAt(text, m) \notin Whitespace
        starts == { i \in 1 .. Len(text) : \E e \in i .. Len(text) : ends(i, e) }
    IN IF starts = {} THEN ""
       ELSE LET i == CHOOSE i \in starts : \A h \in starts : i <= h
                e == CHOOSE e \in i .. Len(text) :
                         ends(i, e) /\ \A f \in i .. Len(text) : ends(i, f) => f <= e
            IN SubSeq(text, i, e)

\* re.search("([^\s]+/[^\s]*)", text): the match or ""
PathToken(text) ==
    LET starts == { i \in 1 .. Len(text) :
                      \E e \in i + 1 .. Len(text) :
                          /\ CharAt(text, e) = "/"
                          /\ \A m \in i .. e : CharAt(text, m) \notin Whitespace }
    IN IF starts = {} THEN ""
       ELSE LET i == CHOOSE i \in starts : \A h \in starts : i <= h
            IN TokenAt(text, i)

\* _extract_target: the first of the target patterns that matches
extract_target(text) ==
    LET word_patterns ==
            << {"archivo", "file", "fichero"},
               {"proyecto", "project"},
               {"función", "function", "método", "method"},
               {"clase", "class"},
               {"este", "esto", "el", "la"} >>
        by_word == { i \in DOMAIN word_patterns : WordThenToken(text, word_patterns[i]) # 0 }
    IN IF by_word # {}
       THEN LET i == CHOOSE i \in by_word : \A h \in by_word : i <= h
            IN Some(TokenAt(text, WordThenToken(text, word_patterns[i])))
       ELSE IF TokenEndingIn(text, ".py") # "" THEN Some(TokenEndingIn(text, ".py"))
       ELSE IF TokenEndingIn(text, ".js") # "" THEN Some(TokenEndingIn(text, ".js"))
       ELSE IF TokenEndingIn(text, ".json") # "" THEN Some(TokenEndingIn(text, ".json"))
       ELSE IF PathToken(text) # "" THEN Some(PathToken(text))
       ELSE None

\* _extract_action_details, as a set of <<key, value>> pairs
extract_action_details(text, intent) ==
    LET has(k) == Contains(text, k)
    IN CASE intent = "analyze" ->
                IF has("problemas") \/ has("errores") \/ has("issues")
                THEN {<<"focus", "issues">>}
                ELSE IF has("performance") \/ has("rendimiento")
                THEN {<<"focus", "performance">>}
                ELSE IF has("métricas") \/ has("estadísticas")
                THEN {<<"focus", "metrics">>}
                ELSE {<<"focus", "general">>}
         [] intent = "create" ->
                IF has("api") \/ has("servidor") THEN {<<"type", "api">>}
                ELSE IF has("web") \/ has("frontend") THEN {<<"type", "web">>}
                ELSE IF has("función") \/ has("método") THEN {<<"type", "function">>}
                ELSE IF has("clase") THEN {<<"type", "class">>}
                ELSE {}
         [] intent = "optimize" ->
                IF has("memoria") THEN {<<"target", "memory">>}
                ELSE IF has("velocidad") \/ has("tiempo") THEN {<<"target", "speed">>}
                ELSE IF has("cpu") THEN {<<"target", "cpu">>}
                ELSE {}
         [] OTHER -> {}

\* the loop of parse with a later group replacing the best one on a tie
RECURSIVE best_match_last_wins(_, _, _)
best_match_last_wins(groups, text_lower, best) ==
    IF groups = << >> THEN best
    ELSE LET confidence == calculate_confidence(text_lower, Head(groups))
         IN best_match_last_wins(Tail(groups), text_lower,
                       IF confidence >= best.confidence /\ confidence > 0
                       THEN [confidence |-> confidence, intent |-> Head(groups).intent]
                       ELSE best)

\* the loop of parse over the pattern groups: a later group replaces the
\* best one only with a greater confidence
RECURSIVE best_match(_, _, _)
best_match(groups, text_lower, best) ==
    IF groups = << >> THEN best
    ELSE LET confidence == calculate_confidence(text_lower, Head(groups))
         IN best_match(Tail(groups), text_lower,
                       IF confidence > best.confidence
                       THEN [confidence |-> confidence, intent |-> Head(groups).intent]
                       ELSE best)

\* what parse returns for no text: a default that claims half confidence
unknown_intent_half_confident(text) ==
    [ParsedIntent("unknown", One \div 2, None, None) EXCEPT !.original_text = text]

\* what parse returns for no text
unknown_intent(text) ==
    [ParsedIntent("unknown", 0, None, None) EXCEPT !.original_text = text]

\* NLPParser.parse; text is Optional
parse(text) ==
    LET given == IF text = None THEN "" ELSE text[1]
    IN IF Len(given) = 0 \/ Len(Strip(given)) = 0 THEN unknown_intent(given)
       ELSE LET text_lower == Strip(Lower(given))
                best == best_match(patterns, text_lower,
                                   [confidence |-> 0, intent |-> "unknown"])
            IN [ParsedIntent(best.intent, best.confidence,
                             extract_target(text_lower),
                             Some(extract_action_details(text_lower, best.intent)))
                   EXCEPT !.original_text = given]

----------------------------------------------------------------------------
(* core/conversation_engine.py *)

ConversationTurn(ts, u, pi, r, et, s) ==
    [timestamp |-> ts, user_input |-> u, parsed_intent |-> pi, response |-> r,
     execution_time |-> et, success |-> s]

ConversationContext(sid, now) ==
    [session_id |-> sid, started_at |-> now, current_task |-> None,
     current_target |-> None, user_preferences |-> << >>,
     recent_actions |-> << >>]

RecentActionsLimit == 5

RECURSIVE learn_details(_, _)
learn_details(prefs, items) ==
    IF items = {} THEN prefs
    ELSE LET kv == CHOOSE x \in items : TRUE
         IN learn_details(Inc(prefs, "pref_" \o kv[1] \o "_" \o kv[2]), items \ {kv})

\* learn_preferences that counts a target only the first time it is seen
learn_preferences_target_once(prefs, intent) ==
    LET p1 == Inc(prefs, "intent_" \o intent.intent)
        target_key == "preferred_targets"
        p2 == IF Truthy(intent.target)
              THEN LET p == IF target_key \in Keys(p1) THEN p1
                            ELSE Put(p1, target_key, << >>)
                   IN Put(p, target_key, Put(Get(p, target_key), intent.target[1], 1))
              ELSE p1
    IN IF intent.action_details # None /\ intent.action_details[1] # {}
       THEN learn_details(p2, intent.action_details[1])
       ELSE p2

learn_preferences(prefs, intent) ==
    LET p1 == Inc(prefs, "intent_" \o intent.intent)
        target_key == "preferred_targets"
        p2 == IF Truthy(intent.target)
              THEN LET p == IF target_key \in Keys(p1) THEN p1
                            ELSE Put(p1, target_key, << >>)
                   IN Put(p, target_key, Inc(Get(p, target_key), intent.target[1]))
              ELSE p1
    IN IF intent.action_details # None /\ intent.action_details[1] # {}
       THEN learn_details(p2, intent.action_details[1])
       ELSE p2

\* update_context with the wrong end of recent_actions kept on overflow
\* (recent_actions[:5] for recent_actions[-5:])
update_context_keeps_oldest(ctx, turn) ==
    IF ctx = None THEN [context |-> ctx, raised |-> FALSE]
    ELSE
      LET c == ctx[1]
          intent == turn.parsed_intent
          c1 == IF intent.intent \in {"analyze", "create", "optimize"}
                THEN [c EXCEPT !.current_task = Some(intent.intent),
                               !.current_target =
                                   IF Truthy(intent.target) THEN intent.target ELSE @]
                ELSE c
      IN IF intent.intent \notin IntentType
         THEN [context |-> Some(c1), raised |-> TRUE]
         ELSE
           LET action_desc ==
                   intent.intent \o ":" \o
                   (IF Truthy(intent.target) THEN intent.target[1] ELSE "general")
               ra == Append(c1.recent_actions, action_desc)
               ra5 == IF Len(ra) > RecentActionsLimit
                      THEN SubSeq(ra, 1, RecentActionsLimit) ELSE ra
           IN [context |->
                   Some([c1 EXCEPT !.recent_actions = ra5,
                                   !.user_preferences = learn_preferences(@, intent)]),
               raised |-> FALSE]

\* update_context that takes every intent for a task
update_context_every_intent_a_task(ctx, turn) ==
    IF ctx = None THEN [context |-> ctx, raised |-> FALSE]
    ELSE
      LET c == ctx[1]
          intent == turn.parsed_intent
          c1 == [c EXCEPT !.current_task = Some(intent.intent),
                          !.current_target =
                              IF Truthy(intent.target) THEN intent.target ELSE @]
      IN IF intent.intent \notin IntentType
         THEN [context |-> Some(c1), raised |-> TRUE]
         ELSE
           LET action_desc ==
                   intent.intent \o ":" \o
                   (IF Truthy(intent.target) THEN intent.target[1] ELSE "general")
               ra == Append(c1.recent_actions, action_desc)
               ra5 == IF Len(ra) > RecentActionsLimit
                      THEN LastN(ra, RecentActionsLimit) ELSE ra
           IN [context |->
                   Some([c1 EXCEPT !.recent_actions = ra5,
                                   !.user_preferences = learn_preferences(@, intent)]),
               raised |-> FALSE]

\* the result is the context after the call and whether the call raised:
\* intent.intent.value raises AttributeError when intent is not an IntentType
update_context(ctx, turn) ==
    IF ctx = None THEN [context |-> ctx, raised |-> FALSE]
    ELSE
      LET c == ctx[1]
          intent == turn.parsed_intent
          c1 == IF intent.intent \in {"analyze", "create", "optimize"}
                THEN [c EXCEPT !.current_task = Some(intent.intent),
                               !.current_target =
                                   IF Truthy(intent.target) THEN intent.target ELSE @]
                ELSE c
      IN IF intent.intent \notin IntentType
         THEN [context |-> Some(c1), raised |-> TRUE]
         ELSE
           LET action_desc ==
                   intent.intent \o ":" \o
                   (IF Truthy(intent.target) THEN intent.target[1] ELSE "general")
               ra == Append(c1.recent_actions, action_desc)
               ra5 == IF Len(ra) > RecentActionsLimit
                      THEN LastN(ra, RecentActionsLimit) ELSE ra
           IN [context |->
                   Some([c1 EXCEPT !.recent_actions = ra5,
                                   !.user_preferences = learn_preferences(@, intent)]),
               raised |-> FALSE]

\* eng is [max_context_turns, current_context, conversation_history]
\* add_turn that updates the context of successful turns only
add_turn_context_on_success(eng, turn) ==
    LET h1 == Append(eng.conversation_history, turn)
        h2 == IF Len(h1) > eng.max_context_turns
              THEN LastN(h1, eng.max_context_turns) ELSE h1
        u == IF turn.success THEN update_context(eng.current_context, turn)
             ELSE [context |-> eng.current_context, raised |-> FALSE]
    IN [eng |-> [eng EXCEPT !.conversation_history = h2,
                            !.current_context = u.context],
        raised |-> u.raised]

add_turn(eng, turn) ==
    LET h1 == Append(eng.conversation_history, turn)
        h2 == IF Len(h1) > eng.max_context_turns
              THEN LastN(h1, eng.max_context_turns) ELSE h1
        u == update_context(eng.current_context, turn)
    IN [eng |-> [eng EXCEPT !.conversation_history = h2,
                            !.current_context = u.context],
        raised |-> u.raised]


\* the last three turns are read with turn.parsed_intent.intent.value, which
\* raises AttributeError on a turn whose intent is not an IntentType
get_context_for_llm_raises(eng) ==
    /\ eng.current_context # None
    /\ \E i \in DOMAIN LastN(eng.conversation_history, 3) :
           LastN(eng.conversation_history, 3)[i].parsed_intent.intent \notin IntentType

get_suggested_continuations(eng) ==
    IF eng.current_context = None \/ eng.conversation_history = << >> THEN << >>
    ELSE LET last_intent ==
                 eng.conversation_history[Len(eng.conversation_history)].parsed_intent.intent
             suggestions ==
                 CASE last_intent = "analyze" ->
                          << "optimice los problemas", "ver metricas", "reporte detallado" >>
                   [] last_intent = "create" ->
                          << "analice lo que cree", "generar tests", "integrarlo" >>
                   [] last_intent = "optimize" ->
                          << "analice el resultado", "mas optimizaciones", "metricas de mejora" >>
                   [] OTHER -> << >>
         IN SubSeq(suggestions, 1, IF Len(suggestions) < 2 THEN Len(suggestions) ELSE 2)

\* max(d.items(), key=lambda x: x[1])[0]: the first key, in insertion
\* order, that has the largest value
MaxKey(d) ==
    d[CHOOSE i \in DOMAIN d :
          /\ \A j \in DOMAIN d : d[j].value <= d[i].value
          /\ \A j \in 1 .. (i - 1) : d[j].value < d[i].value].key

\* the items of d whose key starts with prefix, in order
RECURSIVE ItemsWithPrefix(_, _)
ItemsWithPrefix(d, prefix) ==
    IF d = << >> THEN << >>
    ELSE IF StartsWith(Head(d).key, prefix)
         THEN << Head(d) >> \o ItemsWithPrefix(Tail(d), prefix)
         ELSE ItemsWithPrefix(Tail(d), prefix)

get_user_patterns(eng) ==
    LET prefs == eng.current_context[1].user_preferences
        intent_counts == ItemsWithPrefix(prefs, "intent_")
        preferred_targets ==
            IF "preferred_targets" \in Keys(prefs) THEN Get(prefs, "preferred_targets")
            ELSE << >>
    IN [most_common_intent |->
            IF intent_counts # << >>
            THEN Some(SubSeq(MaxKey(intent_counts), Len("intent_") + 1,
                             Len(MaxKey(intent_counts))))
            ELSE None,
        most_common_target |->
            IF preferred_targets # << >> THEN Some(MaxKey(preferred_targets)) ELSE None,
        total_interactions |-> Len(eng.conversation_history)]

\* (time.time() - started_at) / 60, in sixtieths of a minute
session_duration_minutes(eng, now) == now - eng.current_context[1].started_at

\* get_session_summary when there is a context; success_rate in hundredths
\* and avg_execution_time in milliseconds, both rounded down
get_session_summary(eng, now) ==
    LET history == eng.conversation_history
        successful_turns == SelectSeq(history, LAMBDA t : t.success)
        failed_turns == SelectSeq(history, LAMBDA t : ~t.success)
        RECURSIVE total_time(_)
        total_time(turns) ==
            IF turns = << >> THEN 0
            ELSE Head(turns).execution_time + total_time(Tail(turns))
    IN [session_id |-> eng.current_context[1].session_id,
        duration_minutes |-> session_duration_minutes(eng, now),
        total_turns |-> Len(history),
        successful_turns |-> Len(successful_turns),
        failed_turns |-> Len(failed_turns),
        success_rate |-> IF history # << >>
                         THEN (100 * Len(successful_turns)) \div Len(history) ELSE 0,
        avg_execution_time |-> IF history # << >>
                               THEN total_time(history) \div Len(history) ELSE 0,
        current_task |-> eng.current_context[1].current_task,
        user_patterns |-> get_user_patterns(eng)]

\* the fields of the snapshot that do not depend on the clock
get_context_for_llm(eng) ==
    LET c == eng.current_context[1]
        recent_turns == LastN(eng.conversation_history, 3)
    IN [current_task |-> c.current_task,
        current_target |-> c.current_target,
        recent_actions |-> LastN(c.recent_actions, 3),
        recent_conversation |->
            [i \in DOMAIN recent_turns |->
                [user |-> recent_turns[i].user_input,
                 intent |-> recent_turns[i].parsed_intent.intent,
                 success |-> recent_turns[i].success]],
        user_patterns |-> get_user_patterns(eng),
        suggested_continuations |-> get_suggested_continuations(eng)]

\* start_conversation that builds a new context but keeps the history
start_conversation_state_keeps_history(eng, sid, now) ==
    [eng EXCEPT !.current_context = Some(ConversationContext(sid, now))]

start_conversation_state(eng, sid, now) ==
    [eng EXCEPT !.current_context = Some(ConversationContext(sid, now)),
                !.conversation_history = << >>]

(* save_context and load_context.  The stored file is Optional: None when  *)
(* there is no file, else [parses, data]; parses is FALSE for a text that  *)
(* is not JSON, and data is the JSON object: a mapping from keys to        *)
(* values, JSON null being None.                                           *)

\* the member names of the enum IntentType, by value
IntentTypeName ==
    [analyze |-> "ANALYZE", create |-> "CREATE", modify |-> "MODIFY",
     find |-> "FIND", explain |-> "EXPLAIN", optimize |-> "OPTIMIZE",
     test |-> "TEST", status |-> "STATUS", help |-> "HELP", unknown |-> "UNKNOWN"]

\* json.dump(..., default=str) of an intent: str() of an enum member is
\* "IntentType.<NAME>"; a plain string is written as it is
json_default_str(intent) ==
    IF intent \in IntentType THEN "IntentType." \o IntentTypeName[intent] ELSE intent

\* asdict(turn), as json.dump writes it
asdict_turn(turn) ==
    [timestamp |-> turn.timestamp,
     user_input |-> turn.user_input,
     parsed_intent |->
         [intent |-> json_default_str(turn.parsed_intent.intent),
          confidence |-> turn.parsed_intent.confidence,
          target |-> turn.parsed_intent.target,
          action_details |-> turn.parsed_intent.action_details,
          original_text |-> turn.parsed_intent.original_text],
     response |-> turn.response,
     execution_time |-> turn.execution_time,
     success |-> turn.success]

\* asdict(self.current_context)
asdict_context(context) ==
    [session_id |-> context.session_id, started_at |-> context.started_at,
     current_task |-> context.current_task, current_target |-> context.current_target,
     user_preferences |-> context.user_preferences,
     recent_actions |-> context.recent_actions]

\* the time.time() of ConversationEngine.__init__
SessionStart == 0

\* the file after save_context: nothing is written without a context
save_context(eng, stored) ==
    IF eng.current_context = None THEN stored
    ELSE Some([parses |-> TRUE,
               data |-> [context |-> asdict_context(eng.current_context[1]),
                         conversation_history |->
                             [i \in DOMAIN eng.conversation_history |->
                                 asdict_turn(eng.conversation_history[i])],
                         session_start |-> SessionStart]])

intent_name_to_value ==
    [ANALYZE |-> "analyze", CREATE |-> "create", MODIFY |-> "modify",
     FIND |-> "find", EXPLAIN |-> "explain", OPTIMIZE |-> "optimize",
     TEST |-> "test", STATUS |-> "status", HELP |-> "help", UNKNOWN |-> "unknown"]

\* stored_intent_value that hands the stored string to IntentType() as it is
stored_intent_value_verbatim(intent_value) == intent_value

\* the value handed to IntentType(): the prefix "IntentType." is dropped
\* and a member name is mapped to its value
stored_intent_value(intent_value) ==
    LET name == IF StartsWith(intent_value, "IntentType.")
                THEN SubSeq(intent_value, Len("IntentType.") + 1, Len(intent_value))
                ELSE intent_value
    IN IF name \in DOMAIN intent_name_to_value THEN intent_name_to_value[name]
       ELSE name

\* d.get(key, default)
GetOr(d, key, default) == IF key \in DOMAIN d THEN d[key] ELSE default

\* one stored turn: the ConversationTurn, or the exception its
\* reconstruction raises
load_turn(turn_data) ==
    IF "parsed_intent" \notin DOMAIN turn_data
       \/ "intent" \notin DOMAIN turn_data.parsed_intent
    THEN [error |-> "KeyError", turn |-> None]
    ELSE
      LET intent_data == turn_data.parsed_intent
          intent_value == stored_intent_value(intent_data.intent)
      IN IF intent_value \notin IntentType
         THEN [error |-> "ValueError", turn |-> None]
         ELSE IF "confidence" \notin DOMAIN intent_data
                 \/ ~({"timestamp", "user_input", "response", "execution_time"}
                          \subseteq DOMAIN turn_data)
         THEN [error |-> "KeyError", turn |-> None]
         ELSE [error |-> "",
               turn |-> Some(
                   [timestamp |-> turn_data.timestamp,
                    user_input |-> turn_data.user_input,
                    parsed_intent |->
                        [intent |-> intent_value,
                         confidence |-> intent_data.confidence,
                         target |-> GetOr(intent_data, "target", None),
                         action_details |-> GetOr(intent_data, "action_details", Some({})),
                         original_text |-> GetOr(intent_data, "original_text", "")],
                    response |-> turn_data.response,
                    execution_time |-> turn_data.execution_time,
                    success |-> GetOr(turn_data, "success", TRUE)])]

\* the loop over the stored turns: the history built so far and the
\* exception that ended the loop, if any
RECURSIVE load_turns(_, _)
load_turns(history, turn_datas) ==
    IF turn_datas = << >> THEN [history |-> history, error |-> ""]
    ELSE LET t == load_turn(Head(turn_datas))
         IN IF t.error # "" THEN [history |-> history, error |-> t.error]
            ELSE load_turns(Append(history, t.turn[1]), Tail(turn_datas))

ContextFields ==
    {"session_id", "started_at", "current_task", "current_target",
     "user_preferences", "recent_actions"}

\* ConversationContext(**data["context"]); a null user_preferences or
\* recent_actions becomes an empty one in __post_init__
context_from(fields) ==
    [session_id |-> fields.session_id,
     started_at |-> fields.started_at,
     current_task |-> GetOr(fields, "current_task", None),
     current_target |-> GetOr(fields, "current_target", None),
     user_preferences |-> GetOr(fields, "user_preferences", << >>),
     recent_actions |-> GetOr(fields, "recent_actions", << >>)]

\* the engine after load_context and what happened: "caught:<exception>"
\* when the except clause started a clean conversation, "raise:<exception>"
\* when the exception left load_context
load_context(eng, stored, now) ==
    LET clean(exception) ==
            [eng |-> start_conversation_state(eng, "conv_" \o ToString(now), now),
             events |-> {"caught:" \o exception}]
    IN IF stored = None THEN clean("FileNotFoundError")
       ELSE IF ~stored[1].parses THEN clean("JSONDecodeError")
       ELSE
         LET data == stored[1].data
         IN IF "context" \notin DOMAIN data THEN clean("KeyError")
            ELSE IF ~(DOMAIN data.context \subseteq ContextFields)
                    \/ ~({"session_id", "started_at"} \subseteq DOMAIN data.context)
            THEN [eng |-> eng, events |-> {"raise:TypeError"}]
            ELSE
              LET eng1 == [eng EXCEPT !.current_context =
                                          Some(context_from(data.context))]
              IN IF "session_start" \notin DOMAIN data
                    \/ "conversation_history" \notin DOMAIN data
                 THEN clean("KeyError")
                 ELSE
                   LET l == load_turns(<< >>, data.conversation_history)
                       eng2 == [eng1 EXCEPT !.conversation_history = l.history]
                   IN CASE l.error = "" -> [eng |-> eng2, events |-> {}]
                        [] l.error = "KeyError" -> clean("KeyError")
                        [] OTHER -> [eng |-> eng2, events |-> {"raise:" \o l.error}]

----------------------------------------------------------------------------
(* core/intent_router.py *)

direct_handlers == {"status", "help"}

DirectConfidence == 70      \* parsed_intent.confidence >= 0.7
ToolsConfidence == 60       \* parsed_intent.confidence < 0.6 is rejected

tool_intents ==
    [analyze |-> "code_analyzer", find |-> "workspace_explorer", create |-> "file_manager"]

\* the operation _handle_with_tools looks up on each collaborator
tool_operation ==
    [code_analyzer |-> "analyze_project", workspace_explorer |-> "find_files",
     file_manager |-> "create_file"]

AttributeErrorValue == "'str' object has no attribute 'value'"
AttributeErrorGet == "'NoneType' object has no attribute 'get'"

\* can_handle_directly with the tool threshold in place of its own
can_handle_directly_at_tool_threshold(parsed_intent) ==
    /\ parsed_intent.intent \in direct_handlers
    /\ parsed_intent.confidence >= ToolsConfidence

\* can_handle_directly with > for >=
can_handle_directly_above_threshold(parsed_intent) ==
    /\ parsed_intent.intent \in direct_handlers
    /\ parsed_intent.confidence > DirectConfidence

can_handle_directly(parsed_intent) ==
    /\ parsed_intent.intent \in direct_handlers
    /\ parsed_intent.confidence >= DirectConfidence

\* can_handle_with_tools without the membership test on workspace_tools
can_handle_with_tools_unregistered(parsed_intent, tools) ==
    IF parsed_intent.confidence < ToolsConfidence THEN FALSE
    ELSE parsed_intent.intent \in DOMAIN tool_intents

can_handle_with_tools(parsed_intent, tools) ==
    IF parsed_intent.confidence < ToolsConfidence THEN FALSE
    ELSE /\ parsed_intent.intent \in DOMAIN tool_intents
         /\ tool_intents[parsed_intent.intent] \in DOMAIN tools

\* a handler's outcome: the text it returns, or the exception it raises
Returned(text) == [raised |-> FALSE, text |-> text]
Raised(msg) == [raised |-> TRUE, text |-> msg]

handle_status(eng) ==
    IF eng.current_context = None THEN Returned("Estado: No hay conversacion activa")
    ELSE IF get_context_for_llm_raises(eng) THEN Raised(AttributeErrorValue)
    ELSE Returned("Estado de la Conversacion. Tarea: "
                  \o Str(get_context_for_llm(eng).current_task))

handle_help(eng) ==
    IF eng.current_context = None THEN Returned("LocalClaude - Ayuda Conversacional")
    ELSE IF get_context_for_llm_raises(eng) THEN Raised(AttributeErrorValue)
    ELSE IF Truthy(get_context_for_llm(eng).current_task)
         THEN Returned("LocalClaude - Ayuda Conversacional. Contexto actual: "
                       \o get_context_for_llm(eng).current_task[1])
         ELSE Returned("LocalClaude - Ayuda Conversacional")

handle_directly(eng, parsed_intent) ==
    CASE parsed_intent.intent = "status" -> handle_status(eng)
      [] parsed_intent.intent = "help" -> handle_help(eng)
      [] OTHER -> Returned("Intent no soportado para manejo directo")

\* one collaborator operation: the collaborator returns a text, returns
\* nothing (None) or raises, as the registered object is set up to do
tool_call(tool) ==
    CASE tool.behaviour = "return" -> Returned(tool.text)
      [] tool.behaviour = "none" -> Returned("None")
      [] OTHER -> Raised(tool.text)

\* the whole body is inside try/except Exception: an exception becomes
\* text.  events names what happened on the way.
handle_with_tools(parsed_intent, tools) ==
    LET run(name, prefix, pre_raises) ==
            IF name \in DOMAIN tools /\ tool_operation[name] \in tools[name].operations
            THEN IF pre_raises
                 THEN [text |-> "Error usando herramientas: " \o AttributeErrorGet,
                       events |-> {"action_details:raise"}]
                 ELSE LET r == tool_call(tools[name])
                      IN IF r.raised
                         THEN [text |-> "Error usando herramientas: " \o r.text,
                               events |-> {"tool:raise"}]
                         ELSE [text |-> prefix \o r.text, events |-> {"tool:return"}]
            ELSE [text |-> "Herramienta no disponible para este intent",
                  events |-> {"tool:no_operation"}]
    IN CASE parsed_intent.intent = "analyze" ->
                run("code_analyzer", "Analisis completado: ", FALSE)
         [] parsed_intent.intent = "find" ->
                run("workspace_explorer", "Busqueda completada: ", FALSE)
         [] parsed_intent.intent = "create" ->
                run("file_manager", "Archivo creado: ",
                    parsed_intent.action_details = None)
         [] OTHER -> [text |-> "Herramienta no disponible para este intent",
                      events |-> {"tool:no_operation"}]

\* handle_with_llm that turns a None from chat() into a text
handle_with_llm_none_as_text(eng, llm, parsed_intent) ==
    IF llm = None
    THEN [value |-> Some("LLM no configurado"), events |-> {"llm:not_configured"}]
    ELSE IF get_context_for_llm_raises(eng)
    THEN [value |-> Some("Error en LLM: " \o AttributeErrorValue),
          events |-> {"get_context_for_llm:raise"}]
    ELSE CASE llm[1].behaviour = "return" ->
                  [value |-> Some(llm[1].text), events |-> {"chat:return"}]
           [] llm[1].behaviour = "none" ->
                  [value |-> Some("Error en LLM"), events |-> {"chat:none"}]
           [] OTHER ->
                  [value |-> Some("Error en LLM: " \o llm[1].text),
                   events |-> {"chat:raise"}]

\* _handle_with_llm that returns None when no LLM is registered
handle_with_llm_unconfigured_none(eng, llm, parsed_intent) ==
    IF llm = None
    THEN [value |-> None, events |-> {"llm:not_configured"}]
    ELSE IF get_context_for_llm_raises(eng)
    THEN [value |-> Some("Error en LLM: " \o AttributeErrorValue),
          events |-> {"get_context_for_llm:raise"}]
    ELSE CASE llm[1].behaviour = "return" ->
                  [value |-> Some(llm[1].text), events |-> {"chat:return"}]
           [] llm[1].behaviour = "none" ->
                  [value |-> None, events |-> {"chat:none"}]
           [] OTHER ->
                  [value |-> Some("Error en LLM: " \o llm[1].text),
                   events |-> {"chat:raise"}]

\* Optional[str]: None only when chat() itself returns None
handle_with_llm(eng, llm, parsed_intent) ==
    IF llm = None
    THEN [value |-> Some("LLM no configurado"), events |-> {"llm:not_configured"}]
    ELSE IF get_context_for_llm_raises(eng)
    THEN [value |-> Some("Error en LLM: " \o AttributeErrorValue),
          events |-> {"get_context_for_llm:raise"}]
    ELSE CASE llm[1].behaviour = "return" ->
                  [value |-> Some(llm[1].text), events |-> {"chat:return"}]
           [] llm[1].behaviour = "none" ->
                  [value |-> None, events |-> {"chat:none"}]
           [] OTHER ->
                  [value |-> Some("Error en LLM: " \o llm[1].text),
                   events |-> {"chat:raise"}]

RouteResult(response, handled_by, execution_time, success) ==
    [response |-> response, handled_by |-> handled_by,
     execution_time |-> execution_time, success |-> success]

\* the try block up to its add_turn: the path taken, the text recorded in
\* the turn and the text returned, or the exception a handler raised
route_attempt(eng, llm, tools, parsed_intent) ==
    IF can_handle_directly(parsed_intent)
    THEN LET d == handle_directly(eng, parsed_intent)
         IN [raised |-> d.raised, error |-> d.text, handled_by |-> "direct",
             recorded_response |-> d.text, response |-> d.text, success |-> TRUE,
             events |-> IF d.raised THEN {"handler:raise"} ELSE {}]
    ELSE IF can_handle_with_tools(parsed_intent, tools)
    THEN LET t == handle_with_tools(parsed_intent, tools)
         IN [raised |-> FALSE, error |-> "", handled_by |-> "tools",
             recorded_response |-> t.text, response |-> t.text, success |-> TRUE,
             events |-> t.events]
    ELSE LET l == handle_with_llm(eng, llm, parsed_intent)
         IN [raised |-> FALSE, error |-> "", handled_by |-> "llm",
             recorded_response |-> IF Truthy(l.value) THEN l.value[1] ELSE "Error en LLM",
             response |-> IF Truthy(l.value) THEN l.value[1]
                          ELSE "Lo siento, hubo un error procesando tu solicitud.",
             success |-> l.value # None,
             events |-> l.events]

\* the add_turn that ends the try block and the except block, given the
\* outcome a of the attempt
route_record(eng, user_input, parsed_intent, now, execution_time, a) ==
    LET turn1 == ConversationTurn(now, user_input, parsed_intent, a.recorded_response,
                                  execution_time, a.success)
        add1 == add_turn(eng, turn1)
        in_try_ok == ~a.raised /\ ~add1.raised
        eng1 == IF a.raised THEN eng ELSE add1.eng
        error_response ==
            "Error procesando solicitud: " \o
            (IF a.raised THEN a.error ELSE AttributeErrorValue)
        turn2 == ConversationTurn(now, user_input, parsed_intent, error_response,
                                  execution_time, FALSE)
        add2 == add_turn(eng1, turn2)
    IN IF in_try_ok
       THEN [result |-> Some(RouteResult(a.response, a.handled_by,
                                         execution_time, a.success)),
             eng |-> add1.eng, added |-> << turn1 >>, events |-> a.events]
       ELSE [result |-> IF add2.raised THEN None
                        ELSE Some(RouteResult(error_response, "error",
                                              execution_time, FALSE)),
             eng |-> add2.eng,
             added |-> IF a.raised THEN << turn2 >> ELSE << turn1, turn2 >>,
             events |-> a.events \cup
                        (IF ~a.raised \/ add2.raised THEN {"add_turn:raise"} ELSE {})]

\* result: the returned mapping, or None when the call raised; eng: the
\* engine afterwards; added: the turns handed to add_turn, in order;
\* events: what happened during the call
route_intent(eng, llm, tools, user_input, parsed_intent, now, execution_time) ==
    route_record(eng, user_input, parsed_intent, now, execution_time,
                 route_attempt(eng, llm, tools, parsed_intent))

----------------------------------------------------------------------------
(* core/response_generator.py.  The pictographs that open the templates    *)
(* are left out of the texts, and a list bullet is written "-".  An        *)
(* execution_time is in milliseconds; a score is in units of 1/100000.     *)

\* the first template of each list of _load_response_templates
response_templates ==
    [success |->
        [direct_action |-> " completado exitosamente",
         llm_response |-> "Aquí tienes la respuesta:",
         tool_response |-> "Herramientas ejecutadas:"],
     error |->
        [parsing_error |-> "No pude entender completamente tu solicitud",
         execution_error |-> "Hubo un error ejecutando la acción",
         tool_error |-> "Error en las herramientas"]]

suggestion_patterns ==
    [analyze |->
        [follow_up |-> << "¿Quieres que optimice los problemas encontrados?",
                          "¿Te interesa un análisis más detallado de algún área?",
                          "¿Debo generar un reporte con los hallazgos?" >>,
         proactive |-> << "Crear plan de optimización basado en el análisis",
                          "Generar tests para las áreas problemáticas",
                          "Documentar mejores prácticas encontradas" >>],
     create |->
        [follow_up |-> << "¿Quieres que agregue tests para esto?",
                          "¿Debo integrarlo con el resto del proyecto?",
                          "¿Te ayudo a documentar lo que creé?" >>,
         proactive |-> << "Analizar lo creado para verificar calidad",
                          "Generar documentación automática",
                          "Crear tests unitarios correspondientes" >>],
     optimize |->
        [follow_up |-> << "¿Quieres que analice el impacto de las optimizaciones?",
                          "¿Debo hacer más optimizaciones en otras áreas?",
                          "¿Te interesa ver métricas de mejora?" >>,
         proactive |-> << "Medir performance antes/después",
                          "Buscar otras oportunidades de optimización",
                          "Documentar cambios realizados" >>],
     find |->
        [follow_up |-> << "¿Quieres que analice lo que encontré?",
                          "¿Necesitas buscar algo relacionado?",
                          "¿Te ayudo a entender lo que encontré?" >>,
         proactive |-> << "Analizar contexto de lo encontrado",
                          "Buscar patrones similares",
                          "Explicar funcionalidad encontrada" >>],
     explain |->
        [follow_up |-> << "¿Necesitas más detalles sobre algún aspecto?",
                          "¿Quieres ejemplos prácticos?",
                          "¿Te ayudo con implementación?" >>,
         proactive |-> << "Crear ejemplos de código",
                          "Generar documentación relacionada",
                          "Buscar mejores prácticas" >>]]

determine_response_type(execution_metadata) ==
    IF ~execution_metadata.success THEN "error"
    ELSE CASE execution_metadata.handled_by = "direct" -> "direct_action"
           [] execution_metadata.handled_by = "tools" -> "tool_response"
           [] execution_metadata.handled_by = "llm" -> "llm_response"
           [] OTHER -> "error"

classify_error(execution_metadata) ==
    LET error_response == Lower(execution_metadata.response)
    IN IF Contains(error_response, "no pude entender") THEN "parsing_error"
       ELSE IF Contains(error_response, "herramientas") THEN "tool_error"
       ELSE "execution_error"

format_main_response(raw_response, intent, response_type, execution_metadata) ==
    IF response_type = "error" \/ ~execution_metadata.success
    THEN response_templates.error[classify_error(execution_metadata)]
         \o "\n\n" \o raw_response
    ELSE CASE response_type = "direct_action" ->
                  Title(intent.intent) \o response_templates.success.direct_action
                  \o "\n\n" \o raw_response
           [] response_type = "tool_response" ->
                  response_templates.success.tool_response \o "\n\n" \o raw_response
           [] response_type = "llm_response" ->
                  response_templates.success.llm_response \o "\n\n" \o raw_response
           [] OTHER -> raw_response

\* context is the snapshot of get_context_for_llm; a list "contains" a
\* string when one of its elements equals it
generate_context_suggestions(intent, context) ==
    LET recent_actions == context.recent_actions
        last_actions == LastN(recent_actions, 2)
        in_last(x) == \E i \in DOMAIN last_actions : last_actions[i] = x
        s1 == IF Len(recent_actions) >= 2 /\ in_last("analyze") /\ intent.intent = "create"
              THEN << "Continuar con tests para lo creado" >> ELSE << >>
        s2 == IF Len(recent_actions) >= 2 /\ in_last("create") /\ intent.intent = "optimize"
              THEN << "Analizar impacto de optimizaciones" >> ELSE << >>
        s3 == IF Truthy(context.current_task)
              THEN IF context.current_task[1] = "analyze" /\ intent.intent # "analyze"
                   THEN << "Volver al análisis iniciado" >>
                   ELSE IF context.current_task[1] = "create" /\ intent.intent # "create"
                   THEN << "Continuar con la creación" >>
                   ELSE << >>
              ELSE << >>
    IN FirstN(s1 \o s2 \o s3, 2)

generate_task_continuation_suggestions(intent, context) ==
    IF ~Truthy(context.current_task) THEN << >>
    ELSE LET target(default) ==
                 IF Truthy(context.current_target) THEN context.current_target[1]
                 ELSE default
             key == << context.current_task[1], intent.intent >>
         IN CASE key = << "analyze", "create" >> ->
                     << "Crear solución para " \o target("el problema") >>
              [] key = << "analyze", "optimize" >> ->
                     << "Optimizar " \o target("lo analizado") >>
              [] key = << "create", "analyze" >> ->
                     << "Analizar calidad de " \o target("lo creado") >>
              [] key = << "create", "test" >> ->
                     << "Crear tests para " \o target("lo desarrollado") >>
              [] key = << "optimize", "analyze" >> ->
                     << "Verificar mejoras en " \o target("lo optimizado") >>
              [] OTHER -> << >>

\* conversation_context is Optional: None stands for None and for the empty
\* mapping get_context_for_llm returns when no conversation is active
generate_suggestions(intent, conversation_context) ==
    LET known == intent.intent \in DOMAIN suggestion_patterns
        a1 == IF conversation_context # None
              THEN generate_context_suggestions(intent, conversation_context[1])
              ELSE << >>
        a2 == IF conversation_context # None
                 /\ Truthy(conversation_context[1].current_task)
              THEN generate_task_continuation_suggestions(intent, conversation_context[1])
              ELSE << >>
    IN [actions |-> a1 \o a2,
        follow_up |-> IF known THEN FirstN(suggestion_patterns[intent.intent].follow_up, 2)
                      ELSE << >>,
        proactive |-> IF known THEN FirstN(suggestion_patterns[intent.intent].proactive, 2)
                      ELSE << >>]

HighScore == 80000      \* score >= 0.8
MediumScore == 60000    \* score >= 0.6

\* the thresholds applied to a score
Level(score) ==
    IF score >= HighScore THEN "high"
    ELSE IF score >= MediumScore THEN "medium"
    ELSE "low"

\* calculate_confidence_level that grants the time bonus to a zero
\* execution time too (execution_time >= 0 for execution_time > 0)
calculate_confidence_level_bonus_at_zero(intent, execution_metadata) ==
    LET execution_time == execution_metadata.execution_time
        time_score == IF 20000 - 2 * execution_time > 0
                      THEN 20000 - 2 * execution_time ELSE 0
    IN Level(intent.confidence * 400
             + (IF execution_metadata.success THEN 40000 ELSE 0)
             + (IF execution_time >= 0 THEN time_score ELSE 0))

\* score = 0.4 confidence + 0.4 [success] + 0.2 max(0, 1 - time / 10) [time > 0]
calculate_confidence_level(intent, execution_metadata) ==
    LET execution_time == execution_metadata.execution_time
        time_score == IF 20000 - 2 * execution_time > 0
                      THEN 20000 - 2 * execution_time ELSE 0
    IN Level(intent.confidence * 400
             + (IF execution_metadata.success THEN 40000 ELSE 0)
             + (IF execution_time > 0 THEN time_score ELSE 0))

ResponseMetadata(suggested_actions, confidence_level, follow_up, proactive) ==
    [generation_time |-> 0, suggested_actions |-> suggested_actions,
     confidence_level |-> confidence_level, follow_up_questions |-> follow_up,
     proactive_suggestions |-> proactive]

Bullets(items) == [i \in DOMAIN items |-> "- " \o items[i]]

LowConfidenceHint == "\n*Si necesitas algo diferente, intenta ser más específico*"

create_presentation(formatted_response, metadata) ==
    Join(<< formatted_response >>
         \o (IF metadata.follow_up_questions # << >>
             THEN << "\n**Preguntas de seguimiento:**" >>
                  \o Bullets(metadata.follow_up_questions)
             ELSE << >>)
         \o (IF metadata.suggested_actions # << >>
             THEN << "\n**Sugerencias:**" >> \o Bullets(metadata.suggested_actions)
             ELSE << >>)
         \o (IF metadata.confidence_level = "low" THEN << LowConfidenceHint >>
             ELSE << >>),
         "\n")

generate_response(raw_response, intent, execution_metadata, conversation_context) ==
    LET response_type == determine_response_type(execution_metadata)
        formatted_response ==
            format_main_response(raw_response, intent, response_type, execution_metadata)
        suggestions == generate_suggestions(intent, conversation_context)
        metadata ==
            ResponseMetadata(suggestions.actions,
                             calculate_confidence_level(intent, execution_metadata),
                             suggestions.follow_up, suggestions.proactive)
    IN [formatted_response |-> formatted_response,
        metadata |-> metadata,
        raw_response |-> raw_response,
        suggestions |-> suggestions,
        presentation |-> create_presentation(formatted_response, metadata)]

DefaultSuggestions ==
    << "Intenta ser más específico", "Verifica que el comando sea válido",
       "Usa 'ayuda' para ver opciones disponibles" >>

RECURSIVE SuggestionLines(_)
SuggestionLines(items) ==
    IF items = << >> THEN ""
    ELSE "\n- " \o Head(items) \o SuggestionLines(Tail(items))

\* suggestions is Optional: None when the argument is left out
create_error_response(error_message, intent, suggestions) ==
    LET given == IF suggestions = None THEN DefaultSuggestions ELSE suggestions[1]
        formatted_response ==
            "**Error**: " \o error_message
            \o (IF given # << >>
                THEN "\n\n**Sugerencias:**" \o SuggestionLines(given) ELSE "")
    IN [formatted_response |-> formatted_response,
        metadata |-> ResponseMetadata(given, "low", << >>, << >>),
        raw_response |-> error_message,
        suggestions |-> [actions |-> given, follow_up |-> << >>, proactive |-> << >>],
        presentation |-> formatted_response]

----------------------------------------------------------------------------
(* The state machine *)

Engine ==
    [max_context_turns |-> max_context_turns,
     current_context |-> current_context,
     conversation_history |-> conversation_history]

DefaultWindow == 10     \* ConversationEngine(max_context_turns=10)

NoCall ==
    [op |-> "none", arg |-> None, user_input |-> "", parsed_intent |-> None,
     result |-> None, events |-> {}, session_id |-> ""]

\* ConversationEngine.__init__ and IntentRouter.__init__
InitWith(windows, calls) ==
    /\ max_context_turns \in windows
    /\ pending \in calls
    /\ current_context = None
    /\ conversation_history = << >>
    /\ llm_interface = None
    /\ workspace_tools = << >>
    /\ clock = 0
    /\ file = None
    /\ saved = None
    /\ recorded = << >>
    /\ ret = NoCall

Init == InitWith({DefaultWindow}, {None})

InitStore == InitWith(0 .. MaxWindow, {None})

(* inputs *)

\* what a registered collaborator does when called
Collaborator(operations, behaviour, text) ==
    [operations |-> operations, behaviour |-> behaviour, text |-> text]

LLMInterfaces ==
    {None,
     Some(Collaborator({"chat"}, "return", "respuesta")),
     Some(Collaborator({"chat"}, "none", "")),
     Some(Collaborator({"chat"}, "raise", "connection refused"))}

ToolNames == {"code_analyzer", "workspace_explorer", "file_manager"}

AllTools(behaviour, text, lacking) ==
    [n \in ToolNames |->
        Collaborator(IF n \in lacking THEN {} ELSE {tool_operation[n]}, behaviour, text)]

Without(tools, name) == [n \in DOMAIN tools \ {name} |-> tools[n]]

\* the registered tools: none, all three (returning, raising, or lacking
\* their operation), or all but one
ToolDicts ==
    { << >>, AllTools("return", "resultado", {}), AllTools("raise", "boom", {}),
      AllTools("return", "resultado", ToolNames) }
    \cup { Without(AllTools("return", "resultado", {}), n) : n \in ToolNames }

\* confidences on both sides of the two thresholds
RouterCases ==
    ({"analyze", "status"} \X {59, 60, 69, 70})
    \cup ({"find", "create"} \X {59, 60})
    \cup ({"help"} \X {69, 70})
    \cup ({"explain"} \X {59, 70})

\* a confidence of the parser in hundredths, rounded down: the thresholds
\* of the router are hundredths, so the comparisons are the same
Hundredths(confidence) == (confidence * 100) \div One

\* CLIEngine._handle_conversation, steps 1 and 2: the text is parsed and
\* handed with its ParsedIntent to route_intent
Classified(text) ==
    << text, [parse(Some(text)) EXCEPT !.confidence = Hundredths(@)] >>

\* utterances as the parser classifies them: Analyze 0.72, Optimize 0.80,
\* Find 0.80, Create 0.75 and, by keywords alone, Analyze 0.16 (two of six
\* keywords) and Status 0.50 (all five)
ClassifiedInputs ==
    { Classified(text) :
        text \in {"Analiza este proyecto completamente", "optimizar el rendimiento",
                  "buscar archivo dónde", "crea una clase nueva", "revisar problemas",
                  "estado status progreso métricas situación"} }

\* parsed utterances, what NLPParser.parse returns for the empty input, and
\* a hand-built ParsedIntent that keeps the dataclass default
\* action_details=None
RouterInputs ==
    { << "analiza esto", ParsedIntent(ic[1], ic[2], None, Some({})) >> : ic \in RouterCases }
    \cup { << "", ParsedIntent("unknown", 0, None, None) >>,
           << "crea algo", ParsedIntent("create", 60, None, None) >> }
    \cup ClassifiedInputs

\* a ParsedIntent whose intent is the string "status", not IntentType.STATUS
UntypedInputs ==
    { << "estado", ParsedIntent("str:status", c, None, Some({})) >> : c \in {59, 70} }

StoreInputs ==
    { << "analiza main.py", ParsedIntent("analyze", 72, Some("main.py"), Some({})) >>,
      << "crea una clase", ParsedIntent("create", 68, None, Some({<<"type", "class">>})) >>,
      << "estado de app.py", ParsedIntent("status", 82, Some("app.py"), Some({})) >>,
      << "optimiza utils.py", ParsedIntent("optimize", 48, Some("utils.py"), Some({})) >> }

\* the sequences over S of length at most n
SeqsUpTo(S, n) == UNION { [1 .. k -> S] : k \in 0 .. n }

\* the engine after start_conversation and one add_turn per input
RECURSIVE EngineAfter(_)
EngineAfter(inputs) ==
    IF inputs = << >>
    THEN start_conversation_state(
             [max_context_turns |-> DefaultWindow, current_context |-> None,
              conversation_history |-> << >>], "conv_0", 0)
    ELSE LET in == inputs[Len(inputs)]
         IN add_turn(EngineAfter(SubSeq(inputs, 1, Len(inputs) - 1)),
                     ConversationTurn(0, in[1], in[2], "Respuesta simulada", 0, TRUE)).eng

\* the turns that set the task the response generator looks at
SnapshotInputs == { in \in StoreInputs : in[2].intent \in {"analyze", "create"} }

\* what get_context_for_llm hands to the response generator: nothing before
\* a conversation is started, else the snapshot of a short session
Snapshots ==
    {None} \cup { Some(get_context_for_llm(EngineAfter(inputs))) :
                      inputs \in SeqsUpTo(SnapshotInputs, MaxSnapshotTurns) }

PresentIntents ==
    { ParsedIntent(i, c, None, Some({})) : i \in IntentType, c \in {0, 50, 100} }

\* the results route_intent returns: a path with its success flag, a text
\* and an execution time in milliseconds
RoutingResults ==
    { RouteResult(response, hs[1], execution_time, hs[2]) :
        response \in {"respuesta", "Error usando herramientas: boom",
                      "Lo siento, hubo un error procesando tu solicitud."},
        hs \in {<<"direct", TRUE>>, <<"tools", TRUE>>, <<"llm", TRUE>>,
                <<"llm", FALSE>>, <<"error", FALSE>>},
        execution_time \in {0, 1, 5000, 10000, 20000} }

GenerateResponseCalls ==
    { Some([fn |-> "generate_response", intent |-> intent,
            execution_metadata |-> execution_metadata,
            conversation_context |-> conversation_context]) :
        intent \in PresentIntents, execution_metadata \in RoutingResults,
        conversation_context \in Snapshots }

CreateErrorResponseCalls ==
    { Some([fn |-> "create_error_response", error_message |-> error_message,
            intent |-> intent, suggestions |-> suggestions]) :
        error_message \in {"", "Error procesando conversación: boom"},
        intent \in {None, Some(ParsedIntent("unknown", 0, None, None))},
        suggestions \in {None, Some(<< >>), Some(<< "Usa 'ayuda'" >>),
                         Some(<< "Revisa el archivo", "Intenta de nuevo" >>)} }

\* a mapping without the key f, and with the key f set to v
Drop(r, f) == [k \in DOMAIN r \ {f} |-> r[k]]
With(r, f, v) == [k \in DOMAIN r \cup {f} |-> IF k = f THEN v ELSE r[k]]

DamageKinds ==
    {"deleted", "not json", "no context", "no session_start", "no conversation_history",
     "unexpected context field", "no session_id", "turn without response",
     "unknown intent value"}

\* a stored file that is not what save_context wrote
Damage(stored, kind) ==
    LET data == stored[1].data
        history == data.conversation_history
        json(d) == Some([parses |-> TRUE, data |-> d])
    IN CASE kind = "deleted" -> None
         [] kind = "not json" -> Some([parses |-> FALSE, data |-> << >>])
         [] kind = "no context" -> json(Drop(data, "context"))
         [] kind = "no session_start" -> json(Drop(data, "session_start"))
         [] kind = "no conversation_history" -> json(Drop(data, "conversation_history"))
         [] kind = "unexpected context field" ->
                json(With(data, "context", With(data.context, "extra", 1)))
         [] kind = "no session_id" ->
                json(With(data, "context", Drop(data.context, "session_id")))
         [] kind = "turn without response" ->
                json(With(data, "conversation_history",
                          [history EXCEPT ![1] = Drop(@, "response")]))
         [] OTHER ->
                json(With(data, "conversation_history",
                          [history EXCEPT ![Len(history)] =
                               With(@, "parsed_intent",
                                    With(@.parsed_intent, "intent", "bogus"))]))

\* the phrases the texts handed to the parser are made of
Vocabulary ==
    {"Analiza", "este proyecto", "revisar problemas", "crea una clase",
     "archivo main.py", "estado del progreso", "métricas del sistema",
     "cómo puedo", "optimizar", "evaluar", "analiza\nproyecto", "src/app.js", "hola",
     " ", "\t"}

\* no text, or up to MaxWords phrases joined by spaces
Texts ==
    {None} \cup { Some(Join(words, " ")) : words \in SeqsUpTo(Vocabulary, MaxWords) }

ParseCalls == { Some([fn |-> "parse", text |-> text]) : text \in Texts }

InitParse == InitWith({DefaultWindow}, ParseCalls)

InitPresent ==
    InitWith({DefaultWindow}, GenerateResponseCalls \cup CreateErrorResponseCalls)

(* actions *)

StartConversation(session_ids) ==
    \E session_id \in session_ids :
        LET sid == IF session_id = None THEN "conv_" \o ToString(clock)
                   ELSE session_id[1]
            eng == start_conversation_state(Engine, sid, clock)
        IN /\ current_context' = eng.current_context
           /\ conversation_history' = eng.conversation_history
           /\ recorded' = << >>
           /\ ret' = [NoCall EXCEPT !.op = "start_conversation", !.arg = session_id,
                                    !.session_id = sid,
                                    !.events = IF conversation_history # << >>
                                               THEN {"history:discarded"} ELSE {}]
           /\ UNCHANGED << max_context_turns, llm_interface, workspace_tools, clock,
                        file, saved, pending >>

start_conversation == StartConversation({None, Some("s1")})

start_conversation_default == StartConversation({None})

set_llm_interface ==
    \E llm \in LLMInterfaces :
        /\ llm_interface' = llm
        /\ ret' = NoCall
        /\ UNCHANGED << max_context_turns, current_context, conversation_history,
                        workspace_tools, clock, file, saved, pending, recorded >>

set_workspace_tools ==
    \E tools \in ToolDicts :
        /\ workspace_tools' = tools
        /\ ret' = NoCall
        /\ UNCHANGED << max_context_turns, current_context, conversation_history,
                        llm_interface, clock, file, saved, pending, recorded >>

RouteIntent(inputs) ==
    \E in \in inputs :
        /\ Len(recorded) < MaxCalls
        /\ \E r \in {route_intent(Engine, llm_interface, workspace_tools,
                                   in[1], in[2], clock, clock - clock)} :
              /\ current_context' = r.eng.current_context
              /\ conversation_history' = r.eng.conversation_history
              /\ recorded' = recorded \o r.added
              /\ ret' = [NoCall EXCEPT !.op = "route_intent", !.user_input = in[1],
                                       !.parsed_intent = Some(in[2]),
                                       !.result = r.result, !.events = r.events]
        /\ UNCHANGED << max_context_turns, llm_interface, workspace_tools, clock,
                        file, saved, pending >>

route_intent_typed == RouteIntent(RouterInputs)

route_intent_any == RouteIntent(RouterInputs \cup UntypedInputs)

\* ConversationEngine.add_turn called by the owner of the store
RecordTurn(inputs, limit) ==
    \E in \in inputs, success \in {TRUE} :
        /\ Len(recorded) < limit
        /\ LET turn == ConversationTurn(clock, in[1], in[2], "Respuesta simulada", 0, success)
               a == add_turn(Engine, turn)
           IN /\ current_context' = a.eng.current_context
              /\ conversation_history' = a.eng.conversation_history
              /\ recorded' = Append(recorded, turn)
              /\ ret' = [NoCall EXCEPT !.op = "add_turn", !.user_input = in[1],
                                       !.parsed_intent = Some(in[2])]
        /\ UNCHANGED << max_context_turns, llm_interface, workspace_tools, clock,
                        file, saved, pending >>

\* add_turn with either outcome of the turn
RecordOutcome(inputs, limit) ==
    \E in \in inputs, success \in BOOLEAN :
        /\ Len(recorded) < limit
        /\ LET turn == ConversationTurn(clock, in[1], in[2],
                                        IF success THEN "Respuesta simulada"
                                        ELSE "Error en LLM", 0, success)
               a == add_turn(Engine, turn)
           IN /\ current_context' = a.eng.current_context
              /\ conversation_history' = a.eng.conversation_history
              /\ recorded' = Append(recorded, turn)
              /\ ret' = [NoCall EXCEPT !.op = "add_turn", !.user_input = in[1],
                                       !.parsed_intent = Some(in[2])]
        /\ UNCHANGED << max_context_turns, llm_interface, workspace_tools, clock,
                        file, saved, pending >>

record_outcome == RecordOutcome(StoreInputs, MaxSnapshotTurns + 1)

record_turn == RecordTurn(StoreInputs, MaxTurns)

\* ConversationEngine(max_context_turns): a new store takes the place of
\* the old one
new_store ==
    /\ current_context' = None
    /\ conversation_history' = << >>
    /\ recorded' = << >>
    /\ ret' = NoCall
    /\ UNCHANGED << max_context_turns, llm_interface, workspace_tools, clock,
                    file, saved, pending >>

\* ConversationEngine(max_context_turns = window): another store, of any window
new_store_sized ==
    \E window \in 1 .. MaxWindow :
        /\ max_context_turns' = window
        /\ current_context' = None
        /\ conversation_history' = << >>
        /\ recorded' = << >>
        /\ ret' = NoCall
        /\ UNCHANGED << llm_interface, workspace_tools, clock, file, saved, pending >>

save ==
    /\ file' = save_context(Engine, file)
    /\ saved' = IF current_context = None THEN saved ELSE Some(Engine)
    /\ ret' = [NoCall EXCEPT !.op = "save_context"]
    /\ UNCHANGED << max_context_turns, current_context, conversation_history,
                    llm_interface, workspace_tools, clock, pending, recorded >>

\* the file is deleted, overwritten or edited outside the program
damage_file ==
    \E kind \in DamageKinds :
        /\ saved # None
        /\ kind \in {"turn without response", "unknown intent value"}
               => file[1].data.conversation_history # << >>
        /\ file' = Damage(file, kind)
        /\ saved' = None
        /\ ret' = NoCall
        /\ UNCHANGED << max_context_turns, current_context, conversation_history,
                        llm_interface, workspace_tools, clock, pending, recorded >>

load ==
    LET l == load_context(Engine, file, clock)
    IN /\ current_context' = l.eng.current_context
       /\ conversation_history' = l.eng.conversation_history
       /\ recorded' = l.eng.conversation_history
       /\ ret' = [NoCall EXCEPT !.op = "load_context", !.arg = file,
                                !.events = l.events]
       /\ UNCHANGED << max_context_turns, llm_interface, workspace_tools, clock,
                       file, saved, pending >>

\* a second passes
tick ==
    /\ clock < MaxClock
    /\ clock' = clock + 1
    /\ UNCHANGED << max_context_turns, current_context, conversation_history,
                    llm_interface, workspace_tools, file, saved, pending,
                    recorded, ret >>

\* a read that takes the recent turns out of the history
snapshot_consumes_recent_turns ==
    /\ ret' = [NoCall EXCEPT !.op = "get_context_for_llm"]
    /\ conversation_history' =
           SubSeq(conversation_history, 1, Len(conversation_history) - 3)
    /\ UNCHANGED << max_context_turns, current_context, llm_interface,
                    workspace_tools, clock, file, saved, pending, recorded >>

\* get_context_for_llm called by a consumer; the result is Optional, None
\* standing for the empty mapping returned while no conversation is active
snapshot ==
    /\ ret' = [NoCall EXCEPT
                  !.op = "get_context_for_llm",
                  !.result =
                      IF current_context = None THEN None
                      ELSE Some([session_duration_minutes |->
                                     session_duration_minutes(Engine, clock)]
                                @@ get_context_for_llm(Engine))]
    /\ UNCHANGED << max_context_turns, current_context, conversation_history,
                    llm_interface, workspace_tools, clock, file, saved, pending,
                    recorded >>

\* ConversationEngine.get_session_summary: {} without a context
session_summary ==
    /\ ret' = [NoCall EXCEPT
                  !.op = "get_session_summary",
                  !.result = IF current_context = None THEN None
                             ELSE Some(get_session_summary(Engine, clock))]
    /\ UNCHANGED << max_context_turns, current_context, conversation_history,
                    llm_interface, workspace_tools, clock, file, saved, pending,
                    recorded >>

\* CLIEngine._handle_conversation, step 1: the text is parsed
parse_text ==
    /\ pending # None
    /\ pending[1].fn = "parse"
    /\ ret' = [NoCall EXCEPT !.op = "parse", !.arg = pending[1].text,
                             !.result = Some(parse(pending[1].text))]
    /\ pending' = None
    /\ UNCHANGED << max_context_turns, current_context, conversation_history,
                    llm_interface, workspace_tools, clock, file, saved, recorded >>

\* CLIEngine._handle_conversation, step 3: the routing result is presented
present ==
    /\ pending # None
    /\ pending[1].fn = "generate_response"
    /\ ret' = [NoCall EXCEPT
                  !.op = "generate_response", !.arg = pending,
                  !.parsed_intent = Some(pending[1].intent),
                  !.result = Some(generate_response(
                                      pending[1].execution_metadata.response,
                                      pending[1].intent,
                                      pending[1].execution_metadata,
                                      pending[1].conversation_context))]
    /\ pending' = None
    /\ UNCHANGED << max_context_turns, current_context, conversation_history,
                    llm_interface, workspace_tools, clock, file, saved, recorded >>

error_response ==
    /\ pending # None
    /\ pending[1].fn = "create_error_response"
    /\ ret' = [NoCall EXCEPT
                  !.op = "create_error_response", !.arg = pending,
                  !.parsed_intent = pending[1].intent,
                  !.result = Some(create_error_response(pending[1].error_message,
                                                        pending[1].intent,
                                                        pending[1].suggestions))]
    /\ pending' = None
    /\ UNCHANGED << max_context_turns, current_context, conversation_history,
                    llm_interface, workspace_tools, clock, file, saved, recorded >>

Next ==
    \/ start_conversation_default
    \/ set_llm_interface
    \/ set_workspace_tools
    \/ route_intent_typed

Spec == Init /\ [][Next]_vars

NextAnyInput ==
    \/ start_conversation_default
    \/ set_llm_interface
    \/ set_workspace_tools
    \/ route_intent_any

SpecAnyInput == Init /\ [][NextAnyInput]_vars

NextStore ==
    \/ start_conversation
    \/ record_turn

SpecStore == InitStore /\ [][NextStore]_vars

\* add_turn in a short session: the counters of a session that was loaded
\* count on, so they bound the session as well
RECURSIVE Total(_)
Total(d) == IF d = << >> THEN 0 ELSE Head(d).value + Total(Tail(d))

record_turn_short ==
    /\ current_context # None
           => Total(ItemsWithPrefix(current_context[1].user_preferences, "intent_"))
                  < MaxSnapshotTurns
    /\ RecordTurn(SnapshotInputs, MaxSnapshotTurns)

NextPersist ==
    \/ new_store
    \/ start_conversation
    \/ record_turn_short
    \/ save
    \/ damage_file
    \/ load

SpecPersist == Init /\ [][NextPersist]_vars

InitWindows == InitWith(1 .. MaxWindow, {None})

\* stores of different windows that share one file
NextWindows ==
    \/ new_store_sized
    \/ start_conversation
    \/ record_turn_short
    \/ save
    \/ load

SpecWindows == InitWindows /\ [][NextWindows]_vars

\* turns of either outcome recorded in one store
NextOutcome ==
    \/ start_conversation
    \/ record_outcome

SpecOutcome == Init /\ [][NextOutcome]_vars

\* what a store of any window reports of its session
NextSummary ==
    \/ start_conversation
    \/ record_outcome
    \/ snapshot
    \/ session_summary

SpecSummary == InitStore /\ [][NextSummary]_vars

NextSnapshot ==
    \/ start_conversation
    \/ record_turn_short
    \/ tick
    \/ snapshot

SpecSnapshot == Init /\ [][NextSnapshot]_vars

NextParse == parse_text

SpecParse == InitParse /\ [][NextParse]_vars

NextPresent ==
    \/ present
    \/ error_response

SpecPresent == InitPresent /\ [][NextPresent]_vars

----------------------------------------------------------------------------
(* Properties *)

\* a route_intent call has just returned a result
Routed == ret.op = "route_intent" /\ ret.result # None

\* C1: route_intent never raises past its own boundary: every call returns a
\* structured result, and a result with success = FALSE carries a non-empty
\* message.  Stated over every input, including a ParsedIntent whose intent
\* makes the Context Store's add_turn raise.
C1_RouteNeverRaises ==
    ret.op = "route_intent" =>
        /\ ret.result # None
        /\ DOMAIN ret.result[1] = {"response", "handled_by", "execution_time", "success"}
        /\ (~ret.result[1].success => ret.result[1].response # "")

\* C2: a route_intent call appends exactly one turn to the store; the turn
\* carries the call's user_input and parsed_intent, and its success flag is
\* the success flag of the returned result.
C2_RouteRecordsOneTurn ==
    [][ret'.op = "route_intent" =>
          /\ ret'.result # None
          /\ Len(recorded') = Len(recorded) + 1
          /\ \E turn \in {recorded'[Len(recorded')]} :
                /\ conversation_history' = Append(conversation_history, turn)
                /\ turn.user_input = ret'.user_input
                /\ turn.parsed_intent = ret'.parsed_intent[1]
                /\ turn.success = ret'.result[1].success]_vars

\* C3: a result is handled_by direct only for a Status or Help intent
\* with confidence >= 0.7; Status with confidence 0.69 is never direct.
C3_DirectOnlyStatusHelpAbove70 ==
    Routed =>
        /\ ret.result[1].handled_by = "direct" =>
              /\ ret.parsed_intent[1].intent \in {"status", "help"}
              /\ ret.parsed_intent[1].confidence >= 70
        /\ (ret.parsed_intent[1].intent = "status" /\ ret.parsed_intent[1].confidence = 69)
              => ret.result[1].handled_by # "direct"

C3_Witness ==
    /\ Routed
    /\ ret.result[1].handled_by = "direct"
    /\ ret.parsed_intent[1].intent = "status"
    /\ ret.parsed_intent[1].confidence = 70

\* the intent -> collaborator table of the tool-routing rule
C4_Mapped(intent, name) ==
    \/ intent = "analyze" /\ name = "code_analyzer"
    \/ intent = "find" /\ name = "workspace_explorer"
    \/ intent = "create" /\ name = "file_manager"

\* C4: a result is handled_by tools only when confidence >= 0.6 and the
\* intent's collaborator is registered; while the collaborator of an intent
\* is not among the registered tools, a turn with that intent is handled by
\* the llm path, whatever its confidence.
C4_ToolsOnlyWhenRegistered ==
    Routed =>
        /\ ret.result[1].handled_by = "tools" =>
              /\ ret.parsed_intent[1].confidence >= 60
              /\ \E name \in DOMAIN workspace_tools :
                     C4_Mapped(ret.parsed_intent[1].intent, name)
        /\ \A name \in ToolNames \ DOMAIN workspace_tools :
              C4_Mapped(ret.parsed_intent[1].intent, name)
                  => ret.result[1].handled_by = "llm"

\* C4 happens: code_analyzer is no longer registered (the other two are) and
\* an Analyze turn with confidence 0.7 went to the llm path
C4_Witness ==
    /\ Routed
    /\ DOMAIN workspace_tools = {"workspace_explorer", "file_manager"}
    /\ ret.parsed_intent[1].intent = "analyze"
    /\ ret.parsed_intent[1].confidence = 70
    /\ ret.result[1].handled_by = "llm"

\* C5: history holds exactly the most recent min(k, N) turns recorded since
\* the start, in arrival order; its length never exceeds the window N, and
\* after N + 1 turns turn 2 is the oldest one present.
C5_HistoryIsLastWindow ==
    LET k == Len(recorded)
        N == max_context_turns
        m == IF k < N THEN k ELSE N
    IN /\ Len(conversation_history) <= N
       /\ conversation_history = SubSeq(recorded, k - m + 1, k)
       /\ (k = N + 1 => conversation_history[1] = recorded[2])

\* C5 restricted to a window of at least one turn
C5_PositiveWindow == max_context_turns >= 1 => C5_HistoryIsLastWindow

\* the descriptor "<intent>:<target or 'general'>" of a recorded turn
C6_Descriptor(turn) ==
    turn.parsed_intent.intent \o ":" \o
    (IF turn.parsed_intent.target = None THEN "general" ELSE turn.parsed_intent.target[1])

\* C6: recent_actions is the descriptors of the last min(k, 5) turns recorded
\* since the start, in arrival order, so its length never exceeds 5.
C6_RecentActionsLastFive ==
    current_context # None =>
        LET k == Len(recorded)
            m == IF k < 5 THEN k ELSE 5
            recent_actions == current_context[1].recent_actions
        IN /\ Len(recent_actions) <= 5
           /\ Len(recent_actions) = m
           /\ \A i \in 1 .. m : recent_actions[i] = C6_Descriptor(recorded[k - m + i])

\* C6 happens: a sixth turn evicted the oldest descriptor
C6_Witness ==
    /\ current_context # None
    /\ Len(recorded) = 6
    /\ Len(current_context[1].recent_actions) = 5
    /\ C6_Descriptor(recorded[1]) = "analyze:main.py"
    /\ current_context[1].recent_actions[1] = "status:app.py"
    /\ current_context[1].recent_actions[5] = "create:general"

\* C7: an exception raised while the turn is handled (by a direct handler, a
\* tool collaborator's operation or the generative collaborator's call) gives
\* a result handled_by error with success = FALSE, recorded with
\* success = FALSE.
C7_ExceptionsBecomeErrorResults ==
    (Routed /\ ret.events \cap {"handler:raise", "tool:raise", "action_details:raise",
                                "chat:raise", "get_context_for_llm:raise"} # {}) =>
        /\ ret.result[1].handled_by = "error"
        /\ ~ret.result[1].success
        /\ ~recorded[Len(recorded)].success

\* C8: on the generative path, a collaborator that returns None gives a
\* result handled_by llm with success = FALSE and a non-empty response,
\* recorded with success = FALSE; one that returns a text gives handled_by
\* llm with success = TRUE.
C8_LLMNoResultIsFailure ==
    Routed =>
        /\ "chat:none" \in ret.events =>
              /\ ret.result[1].handled_by = "llm"
              /\ ~ret.result[1].success
              /\ ret.result[1].response # ""
              /\ ~recorded[Len(recorded)].success
        /\ "chat:return" \in ret.events =>
              /\ ret.result[1].handled_by = "llm"
              /\ ret.result[1].success

C8_Witness ==
    /\ Routed
    /\ "chat:none" \in ret.events
    /\ ret.parsed_intent[1].intent = "unknown"
    /\ ret.user_input = ""
    /\ ~conversation_history[Len(conversation_history)].success

\* C9: on the generative path, an unavailable generative service (none
\* registered, or one that returns nothing) is surfaced as a failure:
\* success = FALSE in the result and in the recorded turn.
C9_UnavailableLLMIsFailure ==
    (Routed /\ ret.events \cap {"llm:not_configured", "chat:none"} # {}) =>
        /\ ~ret.result[1].success
        /\ ~recorded[Len(recorded)].success

\* C10: when the collaborator registered for the intent lacks the required
\* operation, a turn with confidence >= 0.6 is handled by the generative
\* fallback (handled_by llm), not on the tools path.
C10_MissingOperationFallsBackToLLM ==
    (/\ Routed
     /\ ret.parsed_intent[1].confidence >= 60
     /\ \E name \in DOMAIN workspace_tools :
            /\ C4_Mapped(ret.parsed_intent[1].intent, name)
            /\ workspace_tools[name].operations = {})
    => ret.result[1].handled_by = "llm"

\* the last index of a non-empty set of indices
C13_Last(S) == CHOOSE i \in S : \A j \in S : j <= i

\* C13: while a conversation is active, current_task is the intent of the
\* most recent turn recorded since the start whose intent is Analyze, Create
\* or Optimize (None when there is none) and current_target is the target of
\* the most recent such turn that had a target; so a turn with any other
\* intent changes neither.
C13_CurrentTaskIsLastTaskTurn ==
    current_context # None =>
        LET task_turns == { i \in DOMAIN recorded :
                              recorded[i].parsed_intent.intent
                                  \in {"analyze", "create", "optimize"} }
            targeted == { i \in task_turns : recorded[i].parsed_intent.target # None }
        IN /\ current_context[1].current_task =
                  IF task_turns = {} THEN None
                  ELSE Some(recorded[C13_Last(task_turns)].parsed_intent.intent)
           /\ current_context[1].current_target =
                  IF targeted = {} THEN None
                  ELSE recorded[C13_Last(targeted)].parsed_intent.target

\* C13 happens: Analyze main.py, then Create without a target, then Status
\* of app.py: the task is create, the target is still main.py
C13_Witness ==
    /\ current_context # None
    /\ Len(recorded) = 3
    /\ recorded[1].parsed_intent = ParsedIntent("analyze", 72, Some("main.py"), Some({}))
    /\ recorded[2].parsed_intent.intent = "create"
    /\ recorded[3].parsed_intent = ParsedIntent("status", 82, Some("app.py"), Some({}))
    /\ current_context[1].current_task = Some("create")
    /\ current_context[1].current_target = Some("main.py")

\* a counter of a dict, 0 when the key is absent
C14_Count(d, k) == IF k \in Keys(d) THEN Get(d, k) ELSE 0

\* the per-target counters of user_preferences
C14_Targets(prefs) ==
    IF "preferred_targets" \in Keys(prefs) THEN Get(prefs, "preferred_targets")
    ELSE << >>

\* the pref_<key>_<value> keys of a turn's action details
C14_DetailKeys(intent) ==
    IF intent.action_details = None THEN {}
    ELSE { "pref_" \o kv[1] \o "_" \o kv[2] : kv \in intent.action_details[1] }

\* a record_turn step of an active conversation keeps every key, adds 1 to
\* the counter of the turn's intent, to the counter of the turn's target
\* and to the counters named by also_counted, and changes no other counter
C14_Grows(also_counted(_)) ==
    (ret'.op = "add_turn" /\ current_context # None) =>
          LET p == current_context[1].user_preferences
              q == current_context'[1].user_preferences
              intent == ret'.parsed_intent[1]
          IN /\ Keys(p) \subseteq Keys(q)
             /\ Keys(C14_Targets(p)) \subseteq Keys(C14_Targets(q))
             /\ \A k \in Keys(q) \ {"preferred_targets"} :
                    C14_Count(q, k) =
                        C14_Count(p, k)
                        + (IF k = "intent_" \o intent.intent THEN 1 ELSE 0)
                        + (IF k \in also_counted(intent) THEN 1 ELSE 0)
             /\ \A t \in Keys(C14_Targets(q)) :
                    C14_Count(C14_Targets(q), t) =
                        C14_Count(C14_Targets(p), t)
                        + (IF intent.target = Some(t) THEN 1 ELSE 0)

C14_Nothing(intent) == {}

\* C14: within a session user_preferences only grows; a record_turn adds
\* exactly 1 to the per-intent counter of the turn's intent and, when the
\* turn has a target, exactly 1 to the per-target counter of that target,
\* and leaves every other counter unchanged.
C14_PreferencesCountIntentAndTarget == [][C14_Grows(C14_Nothing)]_vars

\* C14 as amended: the same, and the turn's action details are counted too:
\* for each detail (key, value) the counter pref_<key>_<value> grows by
\* exactly 1; every other counter is unchanged.
C14_PreferencesCountIntentTargetDetails == [][C14_Grows(C14_DetailKeys)]_vars

\* C14 happens: main.py was the target of two turns and a Create turn with
\* the detail type=class was counted
C14_Witness ==
    /\ current_context # None
    /\ Len(recorded) >= 3
    /\ C14_Count(C14_Targets(current_context[1].user_preferences), "main.py") = 2
    /\ C14_Count(current_context[1].user_preferences, "intent_analyze") = 2
    /\ C14_Count(current_context[1].user_preferences, "pref_type_class") = 1

\* C18: start_conversation resets the store whatever its state was: the
\* history is empty, current_task and current_target are unset,
\* recent_actions and user_preferences are empty, and the id returned is the
\* id supplied when one is supplied.
C18_StartResets ==
    [][ret'.op = "start_conversation" =>
          /\ conversation_history' = << >>
          /\ current_context' # None
          /\ current_context'[1].current_task = None
          /\ current_context'[1].current_target = None
          /\ current_context'[1].recent_actions = << >>
          /\ current_context'[1].user_preferences = << >>
          /\ current_context'[1].session_id = ret'.session_id
          /\ (ret'.arg # None => ret'.session_id = ret'.arg[1])]_vars

\* C18 happens: a conversation that had turns was started again with the id
\* s1 and nothing of the earlier session is left
C18_Witness ==
    /\ ret.op = "start_conversation"
    /\ ret.arg = Some("s1")
    /\ ret.session_id = "s1"
    /\ "history:discarded" \in ret.events
    /\ current_context # None /\ current_context[1].session_id = "s1"
    /\ conversation_history = << >>

\* the presentation shows the first item of a non-empty list
C11_Shows(presentation, items) ==
    items # << >> /\ Contains(presentation, items[1])

\* C11: a routing result with success = FALSE is presented with
\* confidence_level low, whatever the confidence, execution time, intent and
\* context; the presentation is not empty and offers a next step: a
\* follow-up question, a suggested action or the closing hint.
C11_FailureIsPresentedLowWithNextStep ==
    (ret.op = "generate_response" /\ ~ret.arg[1].execution_metadata.success) =>
        /\ ret.result[1].metadata.confidence_level = "low"
        /\ ret.result[1].presentation # ""
        /\ \/ C11_Shows(ret.result[1].presentation,
                        ret.result[1].metadata.follow_up_questions)
           \/ C11_Shows(ret.result[1].presentation,
                        ret.result[1].metadata.suggested_actions)
           \/ Contains(ret.result[1].presentation, LowConfidenceHint)

\* C11 happens: a failed Unknown turn with confidence 1.0 that took one
\* millisecond and has no context: no question, no action, only the hint
C11_Witness ==
    /\ ret.op = "generate_response"
    /\ ret.arg[1].execution_metadata = RouteResult("respuesta", "error", 1, FALSE)
    /\ ret.arg[1].intent = ParsedIntent("unknown", 100, None, Some({}))
    /\ ret.arg[1].conversation_context = None
    /\ ret.result[1].metadata.follow_up_questions = << >>
    /\ ret.result[1].metadata.suggested_actions = << >>
    /\ Contains(ret.result[1].presentation, LowConfidenceHint)

\* C12: create_error_response returns confidence_level low and at least one
\* suggestion, in its suggested actions and in its presentation, whether the
\* suggestions argument is left out, empty or not empty.
C12_ErrorResponseAlwaysSuggests ==
    ret.op = "create_error_response" =>
        /\ ret.result[1].metadata.confidence_level = "low"
        /\ ret.result[1].suggestions.actions # << >>
        /\ C11_Shows(ret.result[1].presentation,
                     ret.result[1].metadata.suggested_actions)

\* C15: save_context followed by load_context of the file it wrote gives
\* the session that was saved: the same session_id, as many turns in the
\* history with the same intents in the same order, the same current_task.
C15_SaveLoadRoundTrip ==
    (ret.op = "load_context" /\ saved # None) =>
        /\ ret.events = {}
        /\ current_context # None
        /\ current_context[1].session_id = saved[1].current_context[1].session_id
        /\ current_context[1].current_task = saved[1].current_context[1].current_task
        /\ Len(conversation_history) = Len(saved[1].conversation_history)
        /\ \A i \in DOMAIN conversation_history :
               conversation_history[i].parsed_intent.intent
                   = saved[1].conversation_history[i].parsed_intent.intent

\* C15 happens: a session s1 of two turns, Analyze then Create, was saved
\* and then loaded
C15_Witness ==
    /\ ret.op = "load_context"
    /\ saved # None
    /\ saved[1].current_context[1].session_id = "s1"
    /\ Len(conversation_history) = 2
    /\ conversation_history[1].parsed_intent.intent = "analyze"
    /\ conversation_history[2].parsed_intent.intent = "create"
    /\ current_context[1].current_task = Some("create")
    /\ current_context[1].session_id = "s1"

\* C16: a load_context that fails (no file, a text that is not JSON, a
\* missing field, an unknown intent value, an unexpected field) raises
\* nothing and leaves a freshly started session: a context with no
\* current_task and no recent_actions, and an empty history.
C16_LoadFailureStartsClean ==
    (ret.op = "load_context" /\ ret.events # {}) =>
        /\ \A e \in ret.events : StartsWith(e, "caught:")
        /\ current_context # None
        /\ conversation_history = << >>
        /\ current_context[1].current_task = None
        /\ current_context[1].recent_actions = << >>

\* a step of get_context_for_llm (or no step at all)
C17_SnapshotStep == ret'.op = "get_context_for_llm" /\ clock' = clock

\* the snapshot without its session duration
C17_Timeless(result) ==
    IF result = None THEN None
    ELSE Some(Drop(result[1], "session_duration_minutes"))

\* C17: get_context_for_llm called twice with no add_turn between the calls
\* returns the same data both times, session duration included, and neither
\* call changes the history or the context.
C17_SnapshotTwiceIdentical ==
    [][C17_SnapshotStep =>
          /\ UNCHANGED << current_context, conversation_history >>
          /\ ret.op = "get_context_for_llm" => ret'.result = ret.result]_vars

\* C17 as the code has it: the two results agree in every field but the
\* session duration, which is read from the clock at each call.
C17_SnapshotTwiceIdenticalButDuration ==
    [][C17_SnapshotStep =>
          /\ UNCHANGED << current_context, conversation_history >>
          /\ ret.op = "get_context_for_llm"
                 => C17_Timeless(ret'.result) = C17_Timeless(ret.result)]_vars

\* C17 happens: a snapshot of a session with a turn was taken, time has
\* passed since the session started, and the snapshot says so
C17_Witness ==
    /\ ret.op = "get_context_for_llm"
    /\ ret.result # None
    /\ conversation_history # << >>
    /\ ret.result[1].session_duration_minutes > 0
    /\ ret.result[1].session_duration_minutes < clock
    /\ ret.result[1].current_task # None

\* no text, or a text of whitespace only
C19_Blank(text) ==
    text = None \/ \A i \in 1 .. Len(text[1]) : CharAt(text[1], i) \in Whitespace

\* C19: parse of a text that is absent, empty or made of whitespace only
\* returns the intent Unknown with confidence exactly 0 and no target.
C19_BlankIsUnknown ==
    (ret.op = "parse" /\ C19_Blank(ret.arg)) =>
        /\ ret.result[1].intent = "unknown"
        /\ ret.result[1].confidence = 0
        /\ ret.result[1].target = None

\* C19 happens: a text of several whitespace characters was parsed
C19_Witness ==
    /\ ret.op = "parse"
    /\ ret.arg # None
    /\ Len(ret.arg[1]) > 1
    /\ C19_Blank(ret.arg)
    /\ ret.result[1].intent = "unknown"

\* the score of a pattern group as the specification states it:
\* min(1, (0.8 x base if a regex matches, else 0) + 0.5 x matched / total)
C20_GroupScore(group, text) ==
    LET regex == IF \E i \in DOMAIN group.patterns : search(group.patterns[i], text)
                 THEN (8 * group.confidence * One) \div 1000 ELSE 0
        matched == Cardinality({ i \in DOMAIN group.keywords :
                                    Contains(text, group.keywords[i]) })
        sum == regex + (5 * matched * One) \div (10 * Len(group.keywords))
    IN IF sum > One THEN One ELSE sum

\* the text the pattern groups are scored on
C20_Scored(text) == IF text = None THEN "" ELSE Strip(Lower(text[1]))

\* C20: the confidence parse returns lies in [0, 1] and is the greatest of
\* the scores of the pattern groups, the score of a group being
\* min(1, (0.8 x base if a regex matches, else 0) + 0.5 x matched / total).
C20_ConfidenceIsGreatestClampedScore ==
    ret.op = "parse" =>
        LET scores == { C20_GroupScore(patterns[i], C20_Scored(ret.arg)) :
                           i \in DOMAIN patterns }
        IN /\ ret.result[1].confidence \in 0 .. One
           /\ ret.result[1].confidence \in scores
           /\ \A score \in scores : score <= ret.result[1].confidence

\* C20 happens: a text was parsed whose best group has a regex match and
\* enough keywords for a sum above 1, and the confidence is 1
C20_Witness ==
    /\ ret.op = "parse"
    /\ ret.result[1].confidence = One
    /\ \E i \in DOMAIN patterns :
           calculate_confidence_unclamped(C20_Scored(ret.arg), patterns[i]) > One

\* the scores of the pattern groups for the text that was parsed
C21_Score(i) == C20_GroupScore(patterns[i], C20_Scored(ret.arg))

\* the scores of all groups, in the order of registration
C21_Scores == [i \in DOMAIN patterns |-> C21_Score(i)]

\* the groups with the greatest score
C21_BestOf(scores) ==
    { i \in DOMAIN scores : \A j \in DOMAIN scores : scores[j] <= scores[i] }

C21_Best == C21_BestOf(C21_Scores)

\* C21: parse returns the intent of the pattern group with the greatest
\* score; when several groups have the greatest score and it is not zero,
\* the one registered first (Analyze, Create, Find, Optimize, Explain,
\* Status, Help) is returned.
C21_FirstRegisteredWinsTies ==
    ret.op = "parse" =>
        \A scores \in {C21_Scores} :
            (\E i \in DOMAIN scores : scores[i] > 0) =>
                /\ IntentValues(patterns) = << "analyze", "create", "find", "optimize",
                                               "explain", "status", "help" >>
                /\ \A best \in {C21_BestOf(scores)} :
                       \E i \in best :
                           /\ \A j \in best : i <= j
                           /\ ret.result[1].intent = patterns[i].intent

\* C21 happens: Analyze and Optimize tie with one keyword each, Optimize's
\* keyword coming first in the text, and Analyze is returned
C21_Witness ==
    /\ ret.op = "parse"
    /\ ret.arg = Some("optimizar evaluar")
    /\ C21_Best = {1, 4}
    /\ C21_Score(1) > 0
    /\ ret.result[1].intent = "analyze"

\* the score as the specification states it, in units of 1/100000:
\* 0.4 c + 0.4 [s] + 0.2 max(0, 1 - t / 10), t in milliseconds
C22_Score(c, s, t) ==
    400 * c + (IF s THEN 40000 ELSE 0)
    + (IF 10000 - t > 0 THEN 2 * (10000 - t) ELSE 0)

\* C22: for every confidence, success flag and execution time t >= 0, t = 0
\* included, confidence_level is high when the score
\* 0.4 c + 0.4 [s] + 0.2 max(0, 1 - t/10) is at least 0.8, medium when it is
\* at least 0.6, and low otherwise.
C22_LevelFollowsWeightedScore ==
    ret.op = "generate_response" =>
        LET score == C22_Score(ret.arg[1].intent.confidence,
                               ret.arg[1].execution_metadata.success,
                               ret.arg[1].execution_metadata.execution_time)
        IN ret.result[1].metadata.confidence_level =
               (IF score >= 80000 THEN "high"
                ELSE IF score >= 60000 THEN "medium" ELSE "low")

\* the three tools are registered and a generative collaborator is configured
C23_AllRegistered == DOMAIN workspace_tools = ToolNames /\ llm_interface # None

\* the path taken is tools or direct
C23_ToolsOrDirect ==
    ret.result # None /\ ret.result[1].handled_by \in {"tools", "direct"}

C24_Recent(context, intent) ==
    /\ Len(context.recent_actions) >= 2
    /\ \E i \in DOMAIN LastN(context.recent_actions, 2) :
           StartsWith(LastN(context.recent_actions, 2)[i], intent \o ":")

C24_Suggests(text) ==
    \E i \in DOMAIN ret.result[1].metadata.suggested_actions :
        ret.result[1].metadata.suggested_actions[i] = text

\* C24: when generate_response is given the snapshot taken after recorded
\* turns, an analyze action among the last two descriptors and a Create
\* intent give the add-tests suggestion, and a create action among them and
\* an Optimize intent give the analyze-impact suggestion.
C24_TwoStepPatternsAreSuggested ==
    (ret.op = "generate_response" /\ ret.arg[1].conversation_context # None) =>
        LET context == ret.arg[1].conversation_context[1]
            intent == ret.arg[1].intent.intent
        IN /\ (C24_Recent(context, "analyze") /\ intent = "create")
                  => C24_Suggests("Continuar con tests para lo creado")
           /\ (C24_Recent(context, "create") /\ intent = "optimize")
                  => C24_Suggests("Analizar impacto de optimizaciones")

\* C25: two calls of start_conversation without a session id return
\* different session ids, however close in time they are made.
C25_DefaultSessionIdsDiffer ==
    [][(/\ ret.op = "start_conversation" /\ ret.arg = None
        /\ ret'.op = "start_conversation" /\ ret'.arg = None)
           => ret'.session_id # ret.session_id]_vars

\* C26: in every state reached by start_conversation, add_turn, save_context
\* and load_context on a store of window N the history holds at most N turns,
\* also directly after loading a file saved by a store of a larger window.
C26_HistoryWithinWindow ==
    Len(conversation_history) <= max_context_turns

\* C27: add_turn updates the context independently of the success flag: a
\* turn recorded with success = false changes current_task, current_target,
\* recent_actions and the usage counters exactly as the same turn with
\* success = true does.
C27_ContextIgnoresSuccess ==
    [][(/\ ret'.op = "add_turn"
        /\ current_context # None
        /\ Len(recorded') = Len(recorded) + 1
        /\ ~recorded'[Len(recorded')].success)
          => LET turn == recorded'[Len(recorded')]
                 ok == update_context(current_context,
                                      [turn EXCEPT !.success = TRUE]).context[1]
             IN /\ current_context' # None
                /\ current_context'[1].current_task = ok.current_task
                /\ current_context'[1].current_target = ok.current_target
                /\ current_context'[1].recent_actions = ok.recent_actions
                /\ current_context'[1].user_preferences = ok.user_preferences
                /\ ok.recent_actions # current_context[1].recent_actions
                /\ ok.user_preferences # current_context[1].user_preferences]_vars

C27_Witness ==
    /\ ret.op = "add_turn"
    /\ Len(recorded) = 2
    /\ recorded[1].success /\ ~recorded[2].success
    /\ recorded[1].parsed_intent.intent = "analyze"
    /\ recorded[2].parsed_intent.intent = "create"
    /\ current_context # None
    /\ current_context[1].current_task = Some("create")
    /\ current_context[1].current_target = Some("main.py")
    /\ current_context[1].recent_actions = << "analyze:main.py", "create:general" >>
    /\ Get(current_context[1].user_preferences, "intent_create") = 1

\* C28: every result of route_intent has handled_by among direct, tools, llm
\* and error; direct and tools results have success = TRUE, error results
\* success = FALSE, and a result is handled_by llm with success = FALSE
\* exactly when the generative collaborator returned no result.
C28_ResultShape ==
    Routed =>
        LET r == ret.result[1]
        IN /\ r.handled_by \in {"direct", "tools", "llm", "error"}
           /\ r.handled_by \in {"direct", "tools"} => r.success
           /\ r.handled_by = "error" => ~r.success
           /\ (r.handled_by = "llm" /\ ~r.success) <=> ("chat:none" \in ret.events)

C28_Witness ==
    /\ Routed
    /\ ret.parsed_intent[1].intent = "optimize"
    /\ ret.parsed_intent[1].confidence >= DirectConfidence
    /\ ret.events = {"chat:none"}
    /\ ret.result[1].handled_by = "llm"
    /\ ~ret.result[1].success
    /\ ret.result[1].response = "Lo siento, hubo un error procesando tu solicitud."

\* the classification of text as intent rests on keywords alone: no regex of
\* the group of the intent matches the text, and a keyword occurs in it
C29_KeywordsAlone(text, intent) ==
    \E g \in DOMAIN patterns :
        /\ patterns[g].intent = intent
        /\ \A i \in DOMAIN patterns[g].patterns :
               ~search(patterns[g].patterns[i], Strip(Lower(text)))
        /\ \E i \in DOMAIN patterns[g].keywords :
               Contains(Strip(Lower(text)), patterns[g].keywords[i])

\* the classified utterances that rest on keywords alone
C29_KeywordsAloneInputs ==
    { in \in ClassifiedInputs : C29_KeywordsAlone(in[1], in[2].intent) }

\* C29: an utterance classified by keywords alone has confidence at most 0.5
\* and is never handled direct or by tools: whatever tools are registered,
\* it is handled by the LLM path or the error path.
C29_KeywordsAloneGoToLLM ==
    (/\ Routed
     /\ << ret.user_input, ret.parsed_intent[1] >> \in C29_KeywordsAloneInputs)
    => /\ ret.parsed_intent[1].confidence <= 50
       /\ ret.result[1].handled_by \in {"llm", "error"}

C29_Witness ==
    /\ Routed
    /\ ret.user_input = "estado status progreso métricas situación"
    /\ C29_KeywordsAlone(ret.user_input, "status")
    /\ ret.parsed_intent[1].intent = "status"
    /\ ret.parsed_intent[1].confidence = 50
    /\ ret.result[1].handled_by = "llm"

\* C30: after k add_turn calls since the start on a store of window N the
\* intent counters of user_preferences sum to k, while the turn counts that
\* get_context_for_llm (user_patterns.total_interactions) and
\* get_session_summary (total_turns = successful_turns + failed_turns)
\* report are min(k, N).
C30_ReportedTurnsAreWindowed ==
    (current_context # None /\ ret.result # None
     /\ ret.op \in {"get_context_for_llm", "get_session_summary"}) =>
        LET k == Len(recorded)
            N == max_context_turns
            m == IF k < N THEN k ELSE N
            r == ret.result[1]
        IN /\ Total(ItemsWithPrefix(current_context[1].user_preferences, "intent_")) = k
           /\ ret.op = "get_context_for_llm" =>
                  r.user_patterns.total_interactions = m
           /\ ret.op = "get_session_summary" =>
                  /\ r.total_turns = m
                  /\ r.total_turns = r.successful_turns + r.failed_turns
                  /\ r.user_patterns.total_interactions = m

\* C30 restricted to a window of at least one turn
C30_PositiveWindow == max_context_turns >= 1 => C30_ReportedTurnsAreWindowed

====
